---- MODULE Spec2Model ----
(***************************************************************************)
(* kwarpd: keyboard-driven pointer control.                                *)
(*                                                                         *)
(* The module models config.rs (KeyBinding::parse, Config::default),       *)
(* state.rs (AppState and its key dispatch), input.rs (ModifierState,      *)
(* InputManager), output.rs (VirtualPointer), overlay.rs (the hint grid)   *)
(* and main.rs (PhysicsState and the loop of run()).                       *)
(*                                                                         *)
(* Text (String, &str) is a TLA+ string where the code only compares it    *)
(* (key names) and a sequence of one-character strings where the code      *)
(* looks inside it (a chord to parse, hint_chars, hint_buffer, labels).    *)
(* Velocities are integers in 1/1000 px/s, time is in milliseconds.        *)
(***************************************************************************)
EXTENDS Integers, Sequences, FiniteSets, TLC

VARIABLES
    pc,          \* run(): "poll" (top of the loop), "dispatch" (inside `for event in events`),
                 \*        "returned" (run returned Err, locals dropped), "killed" (process ended by a signal)
    exit_cause,  \* which `?` made run() return: "none", "grab", "write"
    config,      \* Config, loaded before the loop and never changed
    state,       \* AppState
    input,       \* InputManager: grabbed, modifier_state, devices (each device's exclusive grab)
    pointer,     \* VirtualPointer and the uinput device behind it
    physics,     \* PhysicsState
    hints,       \* Vec<HintPoint> of run()
    events,      \* the polled KeyEvents not yet dispatched in this iteration
    out,         \* the records written to the uinput device by the latest step or call
    call,        \* latest VirtualPointer call (specification SpecPointer)
    prev_call,   \* the call before it
    arg,         \* input of the function under test (specifications of pure functions)
    ret          \* its result

vars == <<pc, exit_cause, config, state, input, pointer, physics, hints, events, out,
          call, prev_call, arg, ret>>

(***************************************************************************)
(* Bounds of the model                                                     *)
(***************************************************************************)
\* hardware events one poll_events() call reads, over all devices
MaxBatch == 2
\* keyboards found by find_keyboards()
NumDevices == 2
\* characters of a chord given to KeyBinding::parse
MaxChordLen == 5

Devices == 1..NumDevices

RECURSIVE SeqsUpTo(_, _)
SeqsUpTo(S, n) ==
    IF n = 0 THEN {<<>>}
    ELSE LET shorter == SeqsUpTo(S, n - 1)
         IN shorter \cup {Append(s, x) : s \in {t \in shorter : Len(t) = n - 1}, x \in S}

IsPrefix(p, s) == Len(p) <= Len(s) /\ SubSeq(s, 1, Len(p)) = p

(***************************************************************************)
(* config.rs                                                               *)
(***************************************************************************)
Modifiers_default == [alt |-> FALSE, ctrl |-> FALSE, shift |-> FALSE, super_key |-> FALSE]

UpperCase == <<"A","B","C","D","E","F","G","H","I","J","K","L","M",
               "N","O","P","Q","R","S","T","U","V","W","X","Y","Z">>
LowerCase == <<"a","b","c","d","e","f","g","h","i","j","k","l","m",
               "n","o","p","q","r","s","t","u","v","w","x","y","z">>

\* char::to_lowercase on the ASCII range
to_lowercase_char(c) ==
    IF \E i \in 1..26 : UpperCase[i] = c
    THEN LowerCase[CHOOSE i \in 1..26 : UpperCase[i] = c]
    ELSE c

\* str::to_lowercase: the characters lowercased, joined into the key name
RECURSIVE to_lowercase(_)
to_lowercase(cs) ==
    IF cs = <<>> THEN "" ELSE to_lowercase_char(Head(cs)) \o to_lowercase(Tail(cs))

\* s.split('-').collect(): never empty; an empty chord gives one empty part
RECURSIVE split_dash(_, _, _)
split_dash(s, done, cur) ==
    IF s = <<>> THEN Append(done, cur)
    ELSE IF Head(s) = "-" THEN split_dash(Tail(s), Append(done, cur), <<>>)
    ELSE split_dash(Tail(s), done, Append(cur, Head(s)))

ParseError(msg) == [ok |-> FALSE, err |-> msg, modifiers |-> Modifiers_default, key |-> ""]

\* KeyBinding_parse with a fault seeded: the key is taken as written, not lowercased
KeyBinding_parse_keeps_case(s) ==
    LET parts == split_dash(s, <<>>, <<>>)
        n == Len(parts)
        named(m) == \E i \in 1..(n - 1) : parts[i] = <<m>>
        RECURSIVE join(_)
        join(cs) == IF cs = <<>> THEN "" ELSE Head(cs) \o join(Tail(cs))
    IN  IF \E i \in 1..(n - 1) : parts[i] \notin {<<"A">>, <<"C">>, <<"S">>, <<"M">>}
        THEN ParseError("Unknown modifier")
        ELSE IF join(parts[n]) = "" THEN ParseError("No key specified in binding")
        ELSE [ok |-> TRUE, err |-> "",
              modifiers |-> [alt |-> named("A"), ctrl |-> named("C"),
                             shift |-> named("S"), super_key |-> named("M")],
              key |-> join(parts[n])]

\* KeyBinding::parse. The loop bails at the first part before the last that is
\* not a modifier code; the key is checked after the loop.
KeyBinding_parse(s) ==
    LET parts == split_dash(s, <<>>, <<>>)
        n == Len(parts)
        named(m) == \E i \in 1..(n - 1) : parts[i] = <<m>>
        key == to_lowercase(parts[n])
    IN  IF \E i \in 1..(n - 1) : parts[i] \notin {<<"A">>, <<"C">>, <<"S">>, <<"M">>}
        THEN ParseError("Unknown modifier")
        ELSE IF key = "" THEN ParseError("No key specified in binding")
        ELSE [ok |-> TRUE, err |-> "",
              modifiers |-> [alt |-> named("A"), ctrl |-> named("C"),
                             shift |-> named("S"), super_key |-> named("M")],
              key |-> key]

\* KeyBinding::parse(..).unwrap() of Config::default
Binding(s) == [modifiers |-> KeyBinding_parse(s).modifiers, key |-> KeyBinding_parse(s).key]

MouseButtons_default == [left |-> "m", middle |-> ",", right |-> "."]

\* Config::default, the fields the loop reads
Config_default ==
    [hint_activation_key |-> Binding(<<"A", "-", "M", "-", "x">>),
     activation_key |-> Binding(<<"A", "-", "M", "-", "c">>),
     exit |-> "esc", drag |-> "v", copy_and_exit |-> "c", hint |-> "x",
     accelerator |-> "a", decelerator |-> "d",
     buttons |-> MouseButtons_default,
     left |-> "h", down |-> "j", up |-> "k", right |-> "l",
     scroll_down |-> "e", scroll_up |-> "r",
     speed |-> 220, max_speed |-> 1600, decelerator_speed |-> 50,
     acceleration |-> 700, accelerator_acceleration |-> 2900,
     hint_chars |-> LowerCase, hint_size |-> 20, hint_exit |-> "esc",
     scroll_speed |-> 300, scroll_max_speed |-> 9000,
     scroll_acceleration |-> 1600, scroll_deceleration |-> -3400]

\* Config::parse of a file that sets `left` and `hint_chars` and nothing else: the
\* string options are stored as they are written (raw.left and raw.hint_chars are
\* the characters of the values)
Config_parse(raw) ==
    LET RECURSIVE join(_)
        join(cs) == IF cs = <<>> THEN "" ELSE Head(cs) \o join(Tail(cs))
    IN  [Config_default EXCEPT !.left = join(raw.left), !.hint_chars = raw.hint_chars]

(***************************************************************************)
(* state.rs                                                                *)
(***************************************************************************)
\* enum Action; a and b carry the payload (Move{dx,dy}, Click(button), Scroll(dy), HintChar(ch))
Action(type, a, b) == [type |-> type, a |-> a, b |-> b]
Action_None == Action("None", 0, 0)

MovementState_default ==
    [left |-> FALSE, right |-> FALSE, up |-> FALSE, down |-> FALSE,
     accelerating |-> FALSE, decelerating |-> FALSE]

ScrollState_default == [up |-> FALSE, down |-> FALSE]

\* MovementState_direction with a fault seeded: left wins over right and up over down
MovementState_direction_first_wins(m) ==
    <<IF m.left THEN -1 ELSE IF m.right THEN 1 ELSE 0,
      IF m.up THEN -1 ELSE IF m.down THEN 1 ELSE 0>>

\* MovementState::direction
MovementState_direction(m) ==
    <<(IF m.left THEN -1 ELSE 0) + (IF m.right THEN 1 ELSE 0),
      (IF m.up THEN -1 ELSE 0) + (IF m.down THEN 1 ELSE 0)>>

\* ScrollState::direction
ScrollState_direction(s) == IF s.down THEN 1 ELSE IF s.up THEN -1 ELSE 0

\* AppState::new / Default for AppState
AppState_new ==
    [mode |-> "Inactive", drag_active |-> FALSE,
     movement |-> MovementState_default, scroll |-> ScrollState_default,
     hint_buffer |-> <<>>, current_speed |-> 0, current_scroll_speed |-> 0]

\* AppState_reset with a fault seeded: the hint buffer is left as it is
AppState_reset_keeps_buffer(st) ==
    [st EXCEPT !.movement = MovementState_default, !.scroll = ScrollState_default,
               !.current_speed = 0, !.current_scroll_speed = 0]

\* AppState_reset with a fault seeded: the movement flags are left as they are
AppState_reset_keeps_movement(st) ==
    [st EXCEPT !.scroll = ScrollState_default, !.hint_buffer = <<>>,
               !.current_speed = 0, !.current_scroll_speed = 0]

\* AppState::reset
AppState_reset(st) ==
    [st EXCEPT !.movement = MovementState_default, !.scroll = ScrollState_default,
               !.hint_buffer = <<>>, !.current_speed = 0, !.current_scroll_speed = 0]

\* AppState::enter_normal
AppState_enter_normal(st) == [AppState_reset(st) EXCEPT !.mode = "Normal"]

\* AppState::enter_hint
AppState_enter_hint(st) == [AppState_reset(st) EXCEPT !.mode = "Hint"]

\* AppState::exit
AppState_exit(st) == [AppState_reset(st) EXCEPT !.mode = "Inactive", !.drag_active = FALSE]

Ret(st, action) == [state |-> st, action |-> action]

\* AppState_process_normal_key with a fault seeded: a movement key that is already
\* held is dispatched again
AppState_process_normal_key_repeats(st, key, pressed, cfg) ==
    LET m == st.movement
        dir(mv) == Action("Move", MovementState_direction(mv)[1], MovementState_direction(mv)[2])
    IN
    IF ~pressed THEN
        IF key = cfg.accelerator
        THEN Ret([st EXCEPT !.movement.accelerating = FALSE], Action("ReleaseSpeedMod", 0, 0))
        ELSE IF key = cfg.decelerator
        THEN Ret([st EXCEPT !.movement.decelerating = FALSE], Action("ReleaseSpeedMod", 0, 0))
        ELSE Ret([st EXCEPT
                    !.movement.left = IF key = cfg.left THEN FALSE ELSE @,
                    !.movement.right = IF key = cfg.right THEN FALSE ELSE @,
                    !.movement.up = IF key = cfg.up THEN FALSE ELSE @,
                    !.movement.down = IF key = cfg.down THEN FALSE ELSE @,
                    !.scroll.up = IF key = cfg.scroll_up THEN FALSE ELSE @,
                    !.scroll.down = IF key = cfg.scroll_down THEN FALSE ELSE @],
                 Action_None)
    ELSE IF key = cfg.exit THEN Ret(st, Action("Exit", 0, 0))
    ELSE IF key = cfg.hint THEN Ret(st, Action("EnterHint", 0, 0))
    ELSE IF key = cfg.drag
    THEN Ret([st EXCEPT !.drag_active = ~st.drag_active], Action("ToggleDrag", 0, 0))
    ELSE IF key = cfg.copy_and_exit THEN Ret(st, Action("CopyAndExit", 0, 0))
    ELSE IF key = cfg.accelerator /\ ~m.accelerating
    THEN Ret([st EXCEPT !.movement.accelerating = TRUE], Action("Accelerate", 0, 0))
    ELSE IF key = cfg.decelerator /\ ~m.decelerating
    THEN Ret([st EXCEPT !.movement.decelerating = TRUE], Action("Decelerate", 0, 0))
    ELSE IF key = cfg.left
    THEN Ret([st EXCEPT !.movement.left = TRUE], dir([m EXCEPT !.left = TRUE]))
    ELSE IF key = cfg.right
    THEN Ret([st EXCEPT !.movement.right = TRUE], dir([m EXCEPT !.right = TRUE]))
    ELSE IF key = cfg.up
    THEN Ret([st EXCEPT !.movement.up = TRUE], dir([m EXCEPT !.up = TRUE]))
    ELSE IF key = cfg.down
    THEN Ret([st EXCEPT !.movement.down = TRUE], dir([m EXCEPT !.down = TRUE]))
    ELSE IF key = cfg.scroll_up /\ ~st.scroll.up
    THEN Ret([st EXCEPT !.scroll.up = TRUE], Action("Scroll", -1, 0))
    ELSE IF key = cfg.scroll_down /\ ~st.scroll.down
    THEN Ret([st EXCEPT !.scroll.down = TRUE], Action("Scroll", 1, 0))
    ELSE IF key = cfg.buttons.left THEN Ret(st, Action("Click", 0, 0))
    ELSE IF key = cfg.buttons.middle THEN Ret(st, Action("Click", 1, 0))
    ELSE IF key = cfg.buttons.right THEN Ret(st, Action("Click", 2, 0))
    ELSE Ret(st, Action_None)

\* AppState::process_normal_key
AppState_process_normal_key(st, key, pressed, cfg) ==
    LET m == st.movement
        dir(mv) == Action("Move", MovementState_direction(mv)[1], MovementState_direction(mv)[2])
    IN
    IF ~pressed THEN
        IF key = cfg.accelerator
        THEN Ret([st EXCEPT !.movement.accelerating = FALSE], Action("ReleaseSpeedMod", 0, 0))
        ELSE IF key = cfg.decelerator
        THEN Ret([st EXCEPT !.movement.decelerating = FALSE], Action("ReleaseSpeedMod", 0, 0))
        ELSE Ret([st EXCEPT
                    !.movement.left = IF key = cfg.left THEN FALSE ELSE @,
                    !.movement.right = IF key = cfg.right THEN FALSE ELSE @,
                    !.movement.up = IF key = cfg.up THEN FALSE ELSE @,
                    !.movement.down = IF key = cfg.down THEN FALSE ELSE @,
                    !.scroll.up = IF key = cfg.scroll_up THEN FALSE ELSE @,
                    !.scroll.down = IF key = cfg.scroll_down THEN FALSE ELSE @],
                 Action_None)
    ELSE IF key = cfg.exit THEN Ret(st, Action("Exit", 0, 0))
    ELSE IF key = cfg.hint THEN Ret(st, Action("EnterHint", 0, 0))
    ELSE IF key = cfg.drag
    THEN Ret([st EXCEPT !.drag_active = ~st.drag_active], Action("ToggleDrag", 0, 0))
    ELSE IF key = cfg.copy_and_exit THEN Ret(st, Action("CopyAndExit", 0, 0))
    ELSE IF key = cfg.accelerator /\ ~m.accelerating
    THEN Ret([st EXCEPT !.movement.accelerating = TRUE], Action("Accelerate", 0, 0))
    ELSE IF key = cfg.decelerator /\ ~m.decelerating
    THEN Ret([st EXCEPT !.movement.decelerating = TRUE], Action("Decelerate", 0, 0))
    ELSE IF key = cfg.left /\ ~m.left
    THEN Ret([st EXCEPT !.movement.left = TRUE], dir([m EXCEPT !.left = TRUE]))
    ELSE IF key = cfg.right /\ ~m.right
    THEN Ret([st EXCEPT !.movement.right = TRUE], dir([m EXCEPT !.right = TRUE]))
    ELSE IF key = cfg.up /\ ~m.up
    THEN Ret([st EXCEPT !.movement.up = TRUE], dir([m EXCEPT !.up = TRUE]))
    ELSE IF key = cfg.down /\ ~m.down
    THEN Ret([st EXCEPT !.movement.down = TRUE], dir([m EXCEPT !.down = TRUE]))
    ELSE IF key = cfg.scroll_up /\ ~st.scroll.up
    THEN Ret([st EXCEPT !.scroll.up = TRUE], Action("Scroll", -1, 0))
    ELSE IF key = cfg.scroll_down /\ ~st.scroll.down
    THEN Ret([st EXCEPT !.scroll.down = TRUE], Action("Scroll", 1, 0))
    ELSE IF key = cfg.buttons.left THEN Ret(st, Action("Click", 0, 0))
    ELSE IF key = cfg.buttons.middle THEN Ret(st, Action("Click", 1, 0))
    ELSE IF key = cfg.buttons.right THEN Ret(st, Action("Click", 2, 0))
    ELSE Ret(st, Action_None)

\* Contains with a fault seeded: every character counts as a hint character
Contains_any(chars, ch) == TRUE

\* String::contains(char) on hint_chars
Contains(chars, ch) == \E i \in 1..Len(chars) : chars[i] = ch

\* AppState_process_hint_key with a fault seeded: the hint key pressed in Hint mode
\* returns EnterNormal
AppState_process_hint_key_back(st, key, pressed, cfg) ==
    IF ~pressed THEN Ret(st, Action_None)
    ELSE IF key = cfg.hint_exit \/ key = cfg.exit THEN Ret(st, Action("Exit", 0, 0))
    ELSE IF key = cfg.hint THEN Ret(st, Action("EnterNormal", 0, 0))
    ELSE IF Len(key) = 1 /\ Contains(cfg.hint_chars, key)
    THEN Ret([st EXCEPT !.hint_buffer = Append(@, key)], Action("HintChar", key, 0))
    ELSE Ret(st, Action_None)

\* AppState::process_hint_key. A key name of length 1 is its own character.
AppState_process_hint_key(st, key, pressed, cfg) ==
    IF ~pressed THEN Ret(st, Action_None)
    ELSE IF key = cfg.hint_exit \/ key = cfg.exit THEN Ret(st, Action("Exit", 0, 0))
    ELSE IF Len(key) = 1 /\ Contains(cfg.hint_chars, key)
    THEN Ret([st EXCEPT !.hint_buffer = Append(@, key)], Action("HintChar", key, 0))
    ELSE IF key = "backspace"
    THEN Ret([st EXCEPT !.hint_buffer = IF @ = <<>> THEN @ ELSE SubSeq(@, 1, Len(@) - 1)],
             Action_None)
    ELSE Ret(st, Action_None)

\* AppState_process_key with a fault seeded: in Normal mode a release is dispatched
\* as a press
AppState_process_key_ignores_pressed(st, key, pressed, cfg) ==
    CASE st.mode = "Inactive" -> Ret(st, Action_None)
      [] st.mode = "Normal" -> AppState_process_normal_key(st, key, TRUE, cfg)
      [] st.mode = "Hint" -> AppState_process_hint_key(st, key, pressed, cfg)

\* AppState::process_key
AppState_process_key(st, key, pressed, cfg) ==
    CASE st.mode = "Inactive" -> Ret(st, Action_None)
      [] st.mode = "Normal" -> AppState_process_normal_key(st, key, pressed, cfg)
      [] st.mode = "Hint" -> AppState_process_hint_key(st, key, pressed, cfg)

(***************************************************************************)
(* input.rs                                                                *)
(***************************************************************************)
\* key_to_name: the <<evdev key code, name>> arms of the match. The name of KEY_GRAVE is the
\* grave accent character, written out here because a TLA+ string cannot hold it.
KeyNameTable ==
    {<<"KEY_A", "a">>, <<"KEY_B", "b">>, <<"KEY_C", "c">>, <<"KEY_D", "d">>, <<"KEY_E", "e">>,
     <<"KEY_F", "f">>, <<"KEY_G", "g">>, <<"KEY_H", "h">>, <<"KEY_I", "i">>, <<"KEY_J", "j">>,
     <<"KEY_K", "k">>, <<"KEY_L", "l">>, <<"KEY_M", "m">>, <<"KEY_N", "n">>, <<"KEY_O", "o">>,
     <<"KEY_P", "p">>, <<"KEY_Q", "q">>, <<"KEY_R", "r">>, <<"KEY_S", "s">>, <<"KEY_T", "t">>,
     <<"KEY_U", "u">>, <<"KEY_V", "v">>, <<"KEY_W", "w">>, <<"KEY_X", "x">>, <<"KEY_Y", "y">>,
     <<"KEY_Z", "z">>, <<"KEY_0", "0">>, <<"KEY_1", "1">>, <<"KEY_2", "2">>, <<"KEY_3", "3">>,
     <<"KEY_4", "4">>, <<"KEY_5", "5">>, <<"KEY_6", "6">>, <<"KEY_7", "7">>, <<"KEY_8", "8">>,
     <<"KEY_9", "9">>, <<"KEY_ESC", "esc">>, <<"KEY_BACKSPACE", "backspace">>,
     <<"KEY_TAB", "tab">>, <<"KEY_ENTER", "enter">>, <<"KEY_SPACE", "space">>,
     <<"KEY_COMMA", ",">>, <<"KEY_DOT", ".">>, <<"KEY_SLASH", "/">>, <<"KEY_SEMICOLON", ";">>,
     <<"KEY_APOSTROPHE", "'">>, <<"KEY_LEFTBRACE", "[">>, <<"KEY_RIGHTBRACE", "]">>,
     <<"KEY_BACKSLASH", "\\">>, <<"KEY_MINUS", "-">>, <<"KEY_EQUAL", "=">>,
     <<"KEY_GRAVE", "grave accent">>, <<"KEY_UP", "up">>, <<"KEY_DOWN", "down">>, <<"KEY_LEFT", "left">>,
     <<"KEY_RIGHT", "right">>, <<"KEY_F1", "f1">>, <<"KEY_F2", "f2">>, <<"KEY_F3", "f3">>,
     <<"KEY_F4", "f4">>, <<"KEY_F5", "f5">>, <<"KEY_F6", "f6">>, <<"KEY_F7", "f7">>,
     <<"KEY_F8", "f8">>, <<"KEY_F9", "f9">>, <<"KEY_F10", "f10">>, <<"KEY_F11", "f11">>,
     <<"KEY_F12", "f12">>}

\* key_to_name: every code without an arm gives None
key_to_name(code) ==
    IF \E p \in KeyNameTable : p[1] = code
    THEN [some |-> TRUE, name |-> (CHOOSE p \in KeyNameTable : p[1] = code)[2]]
    ELSE [some |-> FALSE, name |-> ""]

\* ModifierState::default
ModifierState_default ==
    [left_alt |-> FALSE, right_alt |-> FALSE, left_ctrl |-> FALSE, right_ctrl |-> FALSE,
     left_shift |-> FALSE, right_shift |-> FALSE, left_meta |-> FALSE, right_meta |-> FALSE]

\* ModifierState_update with a fault seeded: releasing one Alt key releases both
ModifierState_update_alt_pair(ms, code, pressed) ==
    CASE code \in {"KEY_LEFTALT", "KEY_RIGHTALT"} /\ ~pressed ->
            [ms EXCEPT !.left_alt = FALSE, !.right_alt = FALSE]
      [] code = "KEY_LEFTALT" /\ pressed -> [ms EXCEPT !.left_alt = pressed]
      [] code = "KEY_RIGHTALT" /\ pressed -> [ms EXCEPT !.right_alt = pressed]
      [] code = "KEY_LEFTCTRL" -> [ms EXCEPT !.left_ctrl = pressed]
      [] code = "KEY_RIGHTCTRL" -> [ms EXCEPT !.right_ctrl = pressed]
      [] code = "KEY_LEFTSHIFT" -> [ms EXCEPT !.left_shift = pressed]
      [] code = "KEY_RIGHTSHIFT" -> [ms EXCEPT !.right_shift = pressed]
      [] code = "KEY_LEFTMETA" -> [ms EXCEPT !.left_meta = pressed]
      [] code = "KEY_RIGHTMETA" -> [ms EXCEPT !.right_meta = pressed]
      [] OTHER -> ms

\* ModifierState::update
ModifierState_update(ms, code, pressed) ==
    CASE code = "KEY_LEFTALT" -> [ms EXCEPT !.left_alt = pressed]
      [] code = "KEY_RIGHTALT" -> [ms EXCEPT !.right_alt = pressed]
      [] code = "KEY_LEFTCTRL" -> [ms EXCEPT !.left_ctrl = pressed]
      [] code = "KEY_RIGHTCTRL" -> [ms EXCEPT !.right_ctrl = pressed]
      [] code = "KEY_LEFTSHIFT" -> [ms EXCEPT !.left_shift = pressed]
      [] code = "KEY_RIGHTSHIFT" -> [ms EXCEPT !.right_shift = pressed]
      [] code = "KEY_LEFTMETA" -> [ms EXCEPT !.left_meta = pressed]
      [] code = "KEY_RIGHTMETA" -> [ms EXCEPT !.right_meta = pressed]
      [] OTHER -> ms

\* ModifierState_to_modifiers with a fault seeded: only the left variants count
ModifierState_to_modifiers_left_only(ms) ==
    [alt |-> ms.left_alt, ctrl |-> ms.left_ctrl, shift |-> ms.left_shift,
     super_key |-> ms.left_meta]

\* ModifierState::to_modifiers with alt(), ctrl(), shift(), meta()
ModifierState_to_modifiers(ms) ==
    [alt |-> ms.left_alt \/ ms.right_alt,
     ctrl |-> ms.left_ctrl \/ ms.right_ctrl,
     shift |-> ms.left_shift \/ ms.right_shift,
     super_key |-> ms.left_meta \/ ms.right_meta]

\* ModifierState_matches with a fault seeded: the binding's modifiers need only be held
\* (subset semantics)
ModifierState_matches_subset(ms, binding, key_name) ==
    LET mods == ModifierState_to_modifiers(ms)
    IN  /\ key_name = binding.key
        /\ binding.modifiers.alt => mods.alt
        /\ binding.modifiers.ctrl => mods.ctrl
        /\ binding.modifiers.shift => mods.shift
        /\ binding.modifiers.super_key => mods.super_key

\* ModifierState::matches
ModifierState_matches(ms, binding, key_name) ==
    IF key_name # binding.key THEN FALSE
    ELSE ModifierState_to_modifiers(ms) = binding.modifiers

\* InputManager::new: the keyboards found, none grabbed. devices[d] is TRUE from the
\* grab call that succeeds on device d until the ungrab call that succeeds on it.
InputManager_new ==
    [devices |-> [d \in Devices |-> FALSE], grabbed |-> FALSE,
     modifier_state |-> ModifierState_default]

\* InputManager_grab with a fault seeded: the flag is not set after the devices were grabbed
InputManager_grab_no_flag(im, fail) ==
    IF im.grabbed THEN [input |-> im, ok |-> TRUE]
    ELSE IF fail = 0
    THEN [input |-> [im EXCEPT !.devices = [d \in Devices |-> TRUE]], ok |-> TRUE]
    ELSE [input |-> [im EXCEPT !.devices = [d \in Devices |-> IF d < fail THEN TRUE ELSE @[d]]],
          ok |-> FALSE]

\* InputManager::grab. `fail` is the first device whose grab call fails (0: none);
\* the devices before it stay grabbed and the flag stays false.
InputManager_grab(im, fail) ==
    IF im.grabbed THEN [input |-> im, ok |-> TRUE]
    ELSE IF fail = 0
    THEN [input |-> [im EXCEPT !.devices = [d \in Devices |-> TRUE], !.grabbed = TRUE],
          ok |-> TRUE]
    ELSE [input |-> [im EXCEPT !.devices = [d \in Devices |-> IF d < fail THEN TRUE ELSE @[d]]],
          ok |-> FALSE]

\* InputManager_ungrab with a fault seeded: a device that fails to ungrab ends the
\* call with an error, before the flag and the modifier state are reset
InputManager_ungrab_propagates(im, failed) ==
    IF ~im.grabbed THEN [input |-> im, ok |-> TRUE]
    ELSE IF failed # {}
    THEN [input |-> [im EXCEPT !.devices = [d \in Devices |-> IF d \in failed THEN @[d] ELSE FALSE]],
          ok |-> FALSE]
    ELSE [input |-> [im EXCEPT !.devices = [d \in Devices |-> FALSE], !.grabbed = FALSE,
                               !.modifier_state = ModifierState_default],
          ok |-> TRUE]

\* InputManager_ungrab with a fault seeded: no early return when nothing is grabbed
InputManager_ungrab_unguarded(im, failed) ==
    [input |-> [im EXCEPT !.devices = [d \in Devices |-> IF d \in failed THEN @[d] ELSE FALSE],
                          !.grabbed = FALSE,
                          !.modifier_state = ModifierState_default],
     ok |-> TRUE]

\* InputManager::ungrab. `failed` are the devices whose ungrab call fails: each is
\* logged and stays grabbed; the call still succeeds.
InputManager_ungrab(im, failed) ==
    IF ~im.grabbed THEN [input |-> im, ok |-> TRUE]
    ELSE [input |-> [im EXCEPT !.devices = [d \in Devices |-> IF d \in failed THEN @[d] ELSE FALSE],
                               !.grabbed = FALSE,
                               !.modifier_state = ModifierState_default],
          ok |-> TRUE]

\* PollOne with a fault seeded: a repeat is not skipped
PollOne_keeps_repeats(acc, ev) ==
    IF ev.type # "KEY" THEN acc
    ELSE LET ms == ModifierState_update(acc[1], ev.code, ev.value = 1)
             name == key_to_name(ev.code)
         IN  IF name.some
             THEN <<ms, Append(acc[2], [key |-> name.name, pressed |-> (ev.value = 1),
                                        modifiers |-> ModifierState_to_modifiers(ms)])>>
             ELSE <<ms, acc[2]>>

\* the body of `for ev in ev_iter` of poll_events: `acc` is <<modifier_state, events>>
PollOne(acc, ev) ==
    IF ev.type # "KEY" \/ ev.value = 2 THEN acc
    ELSE LET ms == ModifierState_update(acc[1], ev.code, ev.value = 1)
             name == key_to_name(ev.code)
         IN  IF name.some
             THEN <<ms, Append(acc[2], [key |-> name.name, pressed |-> (ev.value = 1),
                                        modifiers |-> ModifierState_to_modifiers(ms)])>>
             ELSE <<ms, acc[2]>>

RECURSIVE PollDevice(_, _)
PollDevice(acc, evs) ==
    IF evs = <<>> THEN acc ELSE PollDevice(PollOne(acc, Head(evs)), Tail(evs))

\* PollDevices with a fault seeded: the first device whose read fails ends the poll
RECURSIVE PollDevices_stops_at_error(_, _, _)
PollDevices_stops_at_error(acc, reads, d) ==
    IF d > NumDevices \/ ~reads[d].ok THEN acc
    ELSE PollDevices_stops_at_error(PollDevice(acc, reads[d].evs), reads, d + 1)

RECURSIVE PollDevices(_, _, _)
PollDevices(acc, reads, d) ==
    IF d > NumDevices THEN acc
    ELSE PollDevices(IF reads[d].ok THEN PollDevice(acc, reads[d].evs) ELSE acc, reads, d + 1)

\* InputManager::poll_events. reads[d] is what fetch_events gives for device d:
\* an error, or the events that arrived on it. Always Ok.
InputManager_poll_events(im, reads) ==
    LET r == PollDevices(<<im.modifier_state, <<>>>>, reads, 1)
    IN  [input |-> [im EXCEPT !.modifier_state = r[1]], events |-> r[2], ok |-> TRUE]

\* InputManager::check_activation: compares with the manager's modifier state as it is now
InputManager_check_activation(im, key, binding) ==
    ModifierState_matches(im.modifier_state, binding, key)

\* Drop for InputManager
InputManager_drop(im, failed) ==
    IF im.grabbed THEN InputManager_ungrab(im, failed).input ELSE im

(***************************************************************************)
(* output.rs                                                               *)
(***************************************************************************)
EV_SYN == 0
EV_KEY == 1
EV_REL == 2
SYN_REPORT == 0
REL_X == 0
REL_Y == 1
REL_WHEEL == 8
REL_HWHEEL == 6
BTN_LEFT == 272
BTN_RIGHT == 273
BTN_MIDDLE == 274

\* InputEvent::new(type_, code, value); the timestamp is zero
InputEvent(type, code, value) == [type |-> type, code |-> code, value |-> value]
SynReport == InputEvent(EV_SYN, SYN_REPORT, 0)

\* A call's write_event calls, each followed by `?`: the records in `recs` are
\* written in order, and the failAt-th write (0: none) fails and ends the call.
WritesOk(recs, failAt) == failAt = 0 \/ failAt > Len(recs)
Written(recs, failAt) == IF WritesOk(recs, failAt) THEN recs ELSE SubSeq(recs, 1, failAt - 1)

\* the left button as the device saw it last: "none", "down" or "up"
RECURSIVE LeftAfter(_, _)
LeftAfter(left, recs) ==
    IF recs = <<>> THEN left
    ELSE LeftAfter(IF Head(recs).type = EV_KEY /\ Head(recs).code = BTN_LEFT
                   THEN (IF Head(recs).value = 1 THEN "down" ELSE "up")
                   ELSE left,
                   Tail(recs))

\* VirtualPointer::new, after UI_DEV_CREATE. `exists` is TRUE until UI_DEV_DESTROY is
\* issued and destroy_calls counts the times it is issued.
VirtualPointer_new ==
    [drag_button_held |-> FALSE, exists |-> TRUE, destroy_calls |-> 0, left |-> "none"]

\* the result of a VirtualPointer call: the pointer after it, the records it wrote, Ok or Err
Wrote(p, recs, failAt) ==
    [pointer |-> [p EXCEPT !.left = LeftAfter(@, Written(recs, failAt))],
     out |-> Written(recs, failAt), ok |-> WritesOk(recs, failAt)]

\* the match on the button number of click and button
ButtonCode(button) ==
    CASE button = 0 -> BTN_LEFT [] button = 1 -> BTN_MIDDLE [] button = 2 -> BTN_RIGHT

\* VirtualPointer_move_mouse with a fault seeded: each axis is followed by its own sync
VirtualPointer_move_mouse_sync_each(p, dx, dy, failAt) ==
    Wrote(p, (IF dx # 0 THEN <<InputEvent(EV_REL, REL_X, dx), SynReport>> ELSE <<>>)
             \o (IF dy # 0 THEN <<InputEvent(EV_REL, REL_Y, dy), SynReport>> ELSE <<>>)
             \o (IF dx = 0 /\ dy = 0 THEN <<SynReport>> ELSE <<>>), failAt)

\* VirtualPointer::move_mouse
VirtualPointer_move_mouse(p, dx, dy, failAt) ==
    Wrote(p, (IF dx # 0 THEN <<InputEvent(EV_REL, REL_X, dx)>> ELSE <<>>)
             \o (IF dy # 0 THEN <<InputEvent(EV_REL, REL_Y, dy)>> ELSE <<>>)
             \o <<SynReport>>, failAt)

\* VirtualPointer_click with a fault seeded: a button that is not 1 or 2 is the left one
VirtualPointer_click_default_left(p, button, failAt) ==
    LET code == IF button = 1 THEN BTN_MIDDLE ELSE IF button = 2 THEN BTN_RIGHT ELSE BTN_LEFT
    IN  Wrote(p, <<InputEvent(EV_KEY, code, 1), SynReport,
                   InputEvent(EV_KEY, code, 0), SynReport>>, failAt)

\* VirtualPointer_click with a fault seeded: the release is not followed by a sync
VirtualPointer_click_no_final_sync(p, button, failAt) ==
    IF button \notin {0, 1, 2} THEN [pointer |-> p, out |-> <<>>, ok |-> FALSE]
    ELSE Wrote(p, <<InputEvent(EV_KEY, ButtonCode(button), 1), SynReport,
                    InputEvent(EV_KEY, ButtonCode(button), 0)>>, failAt)

\* VirtualPointer::click
VirtualPointer_click(p, button, failAt) ==
    IF button \notin {0, 1, 2} THEN [pointer |-> p, out |-> <<>>, ok |-> FALSE]
    ELSE Wrote(p, <<InputEvent(EV_KEY, ButtonCode(button), 1), SynReport,
                    InputEvent(EV_KEY, ButtonCode(button), 0), SynReport>>, failAt)

\* VirtualPointer::button
VirtualPointer_button(p, button, pressed, failAt) ==
    IF button \notin {0, 1, 2} THEN [pointer |-> p, out |-> <<>>, ok |-> FALSE]
    ELSE Wrote(p, <<InputEvent(EV_KEY, ButtonCode(button), IF pressed THEN 1 ELSE 0),
                    SynReport>>, failAt)

\* VirtualPointer::toggle_drag: the flag is flipped before the button is written
VirtualPointer_toggle_drag(p, failAt) ==
    VirtualPointer_button([p EXCEPT !.drag_button_held = ~p.drag_button_held],
                          0, ~p.drag_button_held, failAt)

\* VirtualPointer_release_drag with a fault seeded: the release is written whether or
\* not a button is held
VirtualPointer_release_drag_always(p, failAt) ==
    VirtualPointer_button([p EXCEPT !.drag_button_held = FALSE], 0, FALSE, failAt)

\* VirtualPointer::release_drag: the flag is cleared before the release is written
VirtualPointer_release_drag(p, failAt) ==
    IF p.drag_button_held
    THEN VirtualPointer_button([p EXCEPT !.drag_button_held = FALSE], 0, FALSE, failAt)
    ELSE [pointer |-> p, out |-> <<>>, ok |-> TRUE]

\* VirtualPointer::scroll
VirtualPointer_scroll(p, amount, failAt) ==
    Wrote(p, <<InputEvent(EV_REL, REL_WHEEL, -amount), SynReport>>, failAt)

\* VirtualPointer::hscroll
VirtualPointer_hscroll(p, amount, failAt) ==
    Wrote(p, <<InputEvent(EV_REL, REL_HWHEEL, amount), SynReport>>, failAt)

\* VirtualPointer_drop with a fault seeded: the device is destroyed with the button held
VirtualPointer_drop_no_release(p, failAt) ==
    [pointer |-> [p EXCEPT !.exists = FALSE, !.destroy_calls = @ + 1],
     out |-> <<>>, ok |-> TRUE]

\* Drop for VirtualPointer: release_drag with its result ignored, then UI_DEV_DESTROY
VirtualPointer_drop(p, failAt) ==
    LET r == VirtualPointer_release_drag(p, failAt)
    IN  [pointer |-> [r.pointer EXCEPT !.exists = FALSE, !.destroy_calls = @ + 1],
         out |-> r.out, ok |-> TRUE]

(***************************************************************************)
(* overlay.rs                                                              *)
(***************************************************************************)
\* ((num / den) as f64).sqrt().ceil() for num >= 0, den > 0: the least k with k*k*den >= num
RECURSIVE CeilSqrtFrom(_, _, _)
CeilSqrtFrom(k, num, den) == IF k * k * den >= num THEN k ELSE CeilSqrtFrom(k + 1, num, den)
\* CeilSqrt with a fault seeded: the root is rounded down
CeilSqrt_floor(num, den) ==
    LET k == CeilSqrtFrom(0, num, den)
    IN  IF k * k * den = num THEN k ELSE k - 1

CeilSqrt(num, den) == CeilSqrtFrom(0, num, den)

\* calculate_hints for width, height > 0: the first total_hints cells of the
\* hints_x by hints_y grid in row-major order (the `break` leaves only the inner loop,
\* and every later row breaks at once)
calculate_hints(width, height, hint_chars, hint_size) ==
    LET num_chars == Len(hint_chars)
        total_hints == num_chars * num_chars
        hints_y == CeilSqrt(total_hints * height, width)
        hints_x == CeilSqrt(total_hints * width, height)
        spacing_x == width \div (hints_x + 1)
        spacing_y == height \div (hints_y + 1)
        cells == IF total_hints <= hints_x * hints_y THEN total_hints ELSE hints_x * hints_y
    IN  [i \in 1..cells |->
            LET hint_idx == i - 1
                row == hint_idx \div hints_x
                col == hint_idx % hints_x
            IN  [x |-> (col + 1) * spacing_x, y |-> (row + 1) * spacing_y,
                 label |-> <<hint_chars[(hint_idx \div num_chars) + 1],
                             hint_chars[(hint_idx % num_chars) + 1]>>]]

\* find_hint_by_prefix
RECURSIVE find_hint_by_prefix(_, _)
find_hint_by_prefix(hs, prefix) ==
    IF hs = <<>> THEN <<>>
    ELSE (IF IsPrefix(prefix, Head(hs).label) THEN <<Head(hs)>> ELSE <<>>)
         \o find_hint_by_prefix(Tail(hs), prefix)

\* find_hint_exact with a fault seeded: the last hint with the label is taken
find_hint_exact_last(hs, label) ==
    IF \E i \in 1..Len(hs) : hs[i].label = label
    THEN [some |-> TRUE,
          hint |-> hs[CHOOSE i \in 1..Len(hs) :
                        hs[i].label = label /\ \A j \in (i + 1)..Len(hs) : hs[j].label # label]]
    ELSE [some |-> FALSE, hint |-> [x |-> 0, y |-> 0, label |-> <<>>]]

\* find_hint_exact: the first hint with the label, or None
find_hint_exact(hs, label) ==
    IF \E i \in 1..Len(hs) : hs[i].label = label
    THEN [some |-> TRUE,
          hint |-> hs[CHOOSE i \in 1..Len(hs) :
                        hs[i].label = label /\ \A j \in 1..(i - 1) : hs[j].label # label]]
    ELSE [some |-> FALSE, hint |-> [x |-> 0, y |-> 0, label |-> <<>>]]

(***************************************************************************)
(* main.rs: PhysicsState                                                   *)
(***************************************************************************)
\* f64::round of num / den for den > 0: to the nearest integer, halves away from zero
Round(num, den) ==
    IF num >= 0 THEN (2 * num + den) \div (2 * den) ELSE -((2 * (-num) + den) \div (2 * den))

Min(a, b) == IF a < b THEN a ELSE b
Max(a, b) == IF a > b THEN a ELSE b

\* f64::clamp
Clamp(v, lo, hi) == IF v < lo THEN lo ELSE IF v > hi THEN hi ELSE v

\* move_towards with a fault seeded: the step is not cut at the target
move_towards_overshoots(current, target, delta) ==
    IF current < target THEN current + delta
    ELSE IF current > target THEN current - delta
    ELSE current

\* move_towards with a fault seeded: a value above the target is not held at the target
move_towards_no_floor(current, target, delta) ==
    IF current < target THEN Min(current + delta, target)
    ELSE IF current > target THEN current - delta
    ELSE current

\* move_towards
move_towards(current, target, delta) ==
    IF current < target THEN Min(current + delta, target)
    ELSE IF current > target THEN Max(current - delta, target)
    ELSE current

\* PhysicsState::new; reset puts the same values back. last_update is not kept:
\* a tick is given the time dt since last_update.
PhysicsState_new == [velocity_x |-> 0, velocity_y |-> 0, scroll_velocity |-> 0]

\* PhysicsState::reset
PhysicsState_reset(ph) == PhysicsState_new

\* |i32| of scroll_deceleration.unsigned_abs()
Abs(v) == IF v < 0 THEN -v ELSE v

\* PhysicsState_update with a fault seeded: a dt above 100 ms is not taken for a stall
PhysicsState_update_long_dt(ph, st, cfg, dt) ==
    IF dt <= 0 THEN [physics |-> ph, dx |-> 0, dy |-> 0, scroll |-> 0]
    ELSE
    LET dir == MovementState_direction(st.movement)
        scroll_dir == ScrollState_direction(st.scroll)
        accel == IF st.movement.accelerating THEN cfg.accelerator_acceleration
                 ELSE IF st.movement.decelerating THEN 0
                 ELSE cfg.acceleration
        target_speed == IF st.movement.decelerating THEN cfg.decelerator_speed
                        ELSE IF st.movement.accelerating THEN cfg.max_speed
                        ELSE cfg.speed
        target_vx == dir[1] * target_speed * 1000
        target_vy == dir[2] * target_speed * 1000
        moving == dir[1] # 0 \/ dir[2] # 0
        accel_step == accel * dt
        decel_step == cfg.acceleration * dt * 2
        vx1 == IF moving THEN move_towards(ph.velocity_x, target_vx, accel_step)
               ELSE move_towards(ph.velocity_x, 0, decel_step)
        vy1 == IF moving THEN move_towards(ph.velocity_y, target_vy, accel_step)
               ELSE move_towards(ph.velocity_y, 0, decel_step)
        max == cfg.max_speed * 1000
        vx == Clamp(vx1, -max, max)
        vy == Clamp(vy1, -max, max)
        sv == IF scroll_dir # 0
              THEN move_towards(ph.scroll_velocity, scroll_dir * cfg.scroll_max_speed * 1000,
                                cfg.scroll_acceleration * dt)
              ELSE move_towards(ph.scroll_velocity, 0, Abs(cfg.scroll_deceleration) * dt)
    IN  [physics |-> [velocity_x |-> vx, velocity_y |-> vy, scroll_velocity |-> sv],
         dx |-> Round(vx * dt, 1000000),
         dy |-> Round(vy * dt, 1000000),
         scroll |-> Round(sv * dt, 100000000)]

\* PhysicsState::update, dt in ms, velocities in 1/1000 px/s
PhysicsState_update(ph, st, cfg, dt) ==
    IF dt <= 0 \/ dt > 100 THEN [physics |-> ph, dx |-> 0, dy |-> 0, scroll |-> 0]
    ELSE
    LET dir == MovementState_direction(st.movement)
        scroll_dir == ScrollState_direction(st.scroll)
        accel == IF st.movement.accelerating THEN cfg.accelerator_acceleration
                 ELSE IF st.movement.decelerating THEN 0
                 ELSE cfg.acceleration
        target_speed == IF st.movement.decelerating THEN cfg.decelerator_speed
                        ELSE IF st.movement.accelerating THEN cfg.max_speed
                        ELSE cfg.speed
        target_vx == dir[1] * target_speed * 1000
        target_vy == dir[2] * target_speed * 1000
        moving == dir[1] # 0 \/ dir[2] # 0
        accel_step == accel * dt
        decel_step == cfg.acceleration * dt * 2
        vx1 == IF moving THEN move_towards(ph.velocity_x, target_vx, accel_step)
               ELSE move_towards(ph.velocity_x, 0, decel_step)
        vy1 == IF moving THEN move_towards(ph.velocity_y, target_vy, accel_step)
               ELSE move_towards(ph.velocity_y, 0, decel_step)
        max == cfg.max_speed * 1000
        vx == Clamp(vx1, -max, max)
        vy == Clamp(vy1, -max, max)
        sv == IF scroll_dir # 0
              THEN move_towards(ph.scroll_velocity, scroll_dir * cfg.scroll_max_speed * 1000,
                                cfg.scroll_acceleration * dt)
              ELSE move_towards(ph.scroll_velocity, 0, Abs(cfg.scroll_deceleration) * dt)
    IN  [physics |-> [velocity_x |-> vx, velocity_y |-> vy, scroll_velocity |-> sv],
         dx |-> Round(vx * dt, 1000000),
         dy |-> Round(vy * dt, 1000000),
         scroll |-> Round(sv * dt, 100000000)]

(***************************************************************************)
(* main.rs: run()                                                          *)
(***************************************************************************)
ScreenWidth == 1920
ScreenHeight == 1080

\* The locals of run() a step works on. A handler gives the set of its outcomes,
\* one for each way its device calls can succeed or fail: [w |-> the locals after
\* it, err |-> "none", or the `?` that returned: "grab" or "write"].
Cur == [state |-> state, input |-> input, pointer |-> pointer, physics |-> physics,
        hints |-> hints, out |-> <<>>]

Outcome(w, err) == [w |-> w, err |-> err]

\* the writes of a pointer call r applied to the locals
WithPointer(w, r) == [w EXCEPT !.pointer = r.pointer, !.out = @ \o r.out]

\* Mode::Inactive arm, activation_key: enter_normal(); grab()?; physics.reset()
OnActivateNormal(w) ==
    { LET g == InputManager_grab(w.input, fail)
          w1 == [w EXCEPT !.state = AppState_enter_normal(@), !.input = g.input]
      IN  IF g.ok THEN Outcome([w1 EXCEPT !.physics = PhysicsState_reset(@)], "none")
          ELSE Outcome(w1, "grab")
      : fail \in 0..NumDevices }

\* Mode::Inactive arm, hint_activation_key: enter_hint(); grab()?; hints = calculate_hints(..)
OnActivateHint(w, cfg) ==
    { LET g == InputManager_grab(w.input, fail)
          w1 == [w EXCEPT !.state = AppState_enter_hint(@), !.input = g.input]
      IN  IF g.ok
          THEN Outcome([w1 EXCEPT !.hints = calculate_hints(ScreenWidth, ScreenHeight,
                                                            cfg.hint_chars, cfg.hint_size)],
                       "none")
          ELSE Outcome(w1, "grab")
      : fail \in 0..NumDevices }

\* Action::Exit: exit(); ungrab()?; physics.reset(); release_drag()?; hints.clear()
OnExit(w) ==
    { LET u == InputManager_ungrab(w.input, failed)
          r == VirtualPointer_release_drag(w.pointer, failAt)
          w1 == WithPointer([w EXCEPT !.state = AppState_exit(@), !.input = u.input,
                                      !.physics = PhysicsState_reset(@)], r)
      IN  IF r.ok THEN Outcome([w1 EXCEPT !.hints = <<>>], "none") ELSE Outcome(w1, "write")
      : failed \in SUBSET Devices, failAt \in 0..2 }

\* Action::EnterHint: enter_hint(); hints = calculate_hints(..)
OnEnterHint(w, cfg) ==
    { Outcome([w EXCEPT !.state = AppState_enter_hint(@),
                        !.hints = calculate_hints(ScreenWidth, ScreenHeight,
                                                  cfg.hint_chars, cfg.hint_size)], "none") }

\* Action::EnterNormal: enter_normal(); hints.clear()
OnEnterNormal(w) ==
    { Outcome([w EXCEPT !.state = AppState_enter_normal(@), !.hints = <<>>], "none") }

\* Action::Click(button): click(button)?
OnClick(w, button) ==
    { LET r == VirtualPointer_click(w.pointer, button, failAt)
      IN  Outcome(WithPointer(w, r), IF r.ok THEN "none" ELSE "write")
      : failAt \in 0..4 }

\* Action::ToggleDrag: toggle_drag()?
OnToggleDrag(w) ==
    { LET r == VirtualPointer_toggle_drag(w.pointer, failAt)
      IN  Outcome(WithPointer(w, r), IF r.ok THEN "none" ELSE "write")
      : failAt \in 0..2 }

\* Action::CopyAndExit: exit(); ungrab()?; release_drag()?
OnCopyAndExit(w) ==
    { LET u == InputManager_ungrab(w.input, failed)
          r == VirtualPointer_release_drag(w.pointer, failAt)
      IN  Outcome(WithPointer([w EXCEPT !.state = AppState_exit(@), !.input = u.input], r),
                  IF r.ok THEN "none" ELSE "write")
      : failed \in SUBSET Devices, failAt \in 0..2 }

\* OnHintChar with a fault seeded: on an exact label the keyboards stay grabbed
OnHintChar_no_ungrab(w) ==
    IF find_hint_exact(w.hints, w.state.hint_buffer).some
    THEN { Outcome([w EXCEPT !.state = AppState_exit(@), !.hints = <<>>], "none") }
    ELSE IF find_hint_by_prefix(w.hints, w.state.hint_buffer) = <<>>
    THEN { Outcome([w EXCEPT !.state.hint_buffer = <<>>], "none") }
    ELSE { Outcome(w, "none") }

\* OnHintChar with a fault seeded: a matched label is only looked up, the mode and
\* the buffer stay
OnHintChar_match_ignored(w) ==
    IF find_hint_exact(w.hints, w.state.hint_buffer).some
    THEN { Outcome(w, "none") }
    ELSE IF find_hint_by_prefix(w.hints, w.state.hint_buffer) = <<>>
    THEN { Outcome([w EXCEPT !.state.hint_buffer = <<>>], "none") }
    ELSE { Outcome(w, "none") }

\* Action::HintChar(ch): on an exact label exit(); ungrab()?; hints.clear(); else the
\* buffer is cleared when no label starts with it
OnHintChar(w) ==
    IF find_hint_exact(w.hints, w.state.hint_buffer).some
    THEN { Outcome([w EXCEPT !.state = AppState_exit(@),
                             !.input = InputManager_ungrab(w.input, failed).input,
                             !.hints = <<>>], "none")
           : failed \in SUBSET Devices }
    ELSE IF find_hint_by_prefix(w.hints, w.state.hint_buffer) = <<>>
    THEN { Outcome([w EXCEPT !.state.hint_buffer = <<>>], "none") }
    ELSE { Outcome(w, "none") }

\* the elapsed time a tick's physics.update can measure, in ms: none, a frame, a stall
TickDts == {0, 16, 120}

\* OnTick with a fault seeded: the physics step runs in every mode
OnTick_every_mode(w, cfg) ==
    { LET u == PhysicsState_update(w.physics, w.state, cfg, dt)
          w1 == [w EXCEPT !.physics = u.physics]
          m == IF u.dx # 0 \/ u.dy # 0
               THEN VirtualPointer_move_mouse(w1.pointer, u.dx, u.dy, failAt)
               ELSE [pointer |-> w1.pointer, out |-> <<>>, ok |-> TRUE]
          w2 == WithPointer(w1, m)
          left == IF failAt = 0 THEN 0 ELSE failAt - Len(m.out)
          sc == IF u.scroll # 0
                THEN VirtualPointer_scroll(w2.pointer, u.scroll, left)
                ELSE [pointer |-> w2.pointer, out |-> <<>>, ok |-> TRUE]
      IN  IF ~m.ok THEN Outcome(w2, "write")
          ELSE Outcome(WithPointer(w2, sc), IF sc.ok THEN "none" ELSE "write")
      : dt \in TickDts, failAt \in 0..5 }

\* after the events: if state.mode == Mode::Normal, physics.update, move_mouse()?, scroll()?
OnTick(w, cfg) ==
    IF w.state.mode # "Normal" THEN { Outcome(w, "none") }
    ELSE
    { LET u == PhysicsState_update(w.physics, w.state, cfg, dt)
          w1 == [w EXCEPT !.physics = u.physics]
          m == IF u.dx # 0 \/ u.dy # 0
               THEN VirtualPointer_move_mouse(w1.pointer, u.dx, u.dy, failAt)
               ELSE [pointer |-> w1.pointer, out |-> <<>>, ok |-> TRUE]
          w2 == WithPointer(w1, m)
          left == IF failAt = 0 THEN 0 ELSE failAt - Len(m.out)
          sc == IF u.scroll # 0
                THEN VirtualPointer_scroll(w2.pointer, u.scroll, left)
                ELSE [pointer |-> w2.pointer, out |-> <<>>, ok |-> TRUE]
      IN  IF ~m.ok THEN Outcome(w2, "write")
          ELSE Outcome(WithPointer(w2, sc), IF sc.ok THEN "none" ELSE "write")
      : dt \in TickDts, failAt \in 0..5 }

\* run() returns through a `?`: its locals are dropped in reverse order of
\* declaration, pointer (Drop for VirtualPointer) before input (Drop for InputManager)
Teardown(w) ==
    { LET d == VirtualPointer_drop(w.pointer, failAt)
      IN  [WithPointer(w, d) EXCEPT !.input = InputManager_drop(w.input, failed)]
      : failAt \in 0..2, failed \in SUBSET Devices }

SetLocals(w) ==
    /\ state' = w.state
    /\ input' = w.input
    /\ pointer' = w.pointer
    /\ physics' = w.physics
    /\ hints' = w.hints
    /\ out' = w.out

\* one outcome of a handler takes effect: the loop goes on, or run() returns
Take(outcomes, next_pc, rest) ==
    \E o \in outcomes :
        IF o.err = "none"
        THEN /\ SetLocals(o.w)
             /\ pc' = next_pc
             /\ events' = rest
             /\ exit_cause' = exit_cause
        ELSE \E t \in Teardown(o.w) :
             /\ SetLocals(t)
             /\ pc' = "returned"
             /\ events' = <<>>
             /\ exit_cause' = o.err

Untouched == UNCHANGED <<config, call, prev_call, arg, ret>>

(* The hardware events the keyboards deliver in specification Spec: the two
   modifier keys of the default activation chords, pressed and released, and the
   keys c, x, esc, v, m. Of these five only c is also released: in every mode the
   release of x, esc, v or m is dispatched the way the release of c is. *)
HwCodes == {"KEY_LEFTALT", "KEY_LEFTMETA", "KEY_C", "KEY_X", "KEY_ESC", "KEY_V", "KEY_M"}
HwReleased == {"KEY_LEFTALT", "KEY_LEFTMETA", "KEY_C"}
HwEvents ==
    {[type |-> "KEY", code |-> c, value |-> 1] : c \in HwCodes}
    \cup {[type |-> "KEY", code |-> c, value |-> 0] : c \in HwReleased}

ReadOk(evs) == [ok |-> TRUE, evs |-> evs]
ReadErr == [ok |-> FALSE, evs |-> <<>>]

\* What one poll reads: at most MaxBatch events, the first ones on the first
\* device and the rest on the last device, whose read may also fail.
PollReads ==
    UNION { { [d \in Devices |->
                  IF d = 1 THEN ReadOk(SubSeq(s, 1, c))
                  ELSE IF d = NumDevices
                  THEN (IF okLast THEN ReadOk(SubSeq(s, c + 1, Len(s))) ELSE ReadErr)
                  ELSE ReadOk(<<>>)]
              : c \in 0..Len(s), okLast \in BOOLEAN }
            : s \in SeqsUpTo(HwEvents, MaxBatch) }

\* top of the loop: let events = input.poll_events().unwrap_or_default()
Poll ==
    /\ pc = "poll"
    /\ \E r \in {InputManager_poll_events(input, reads) : reads \in PollReads} :
          /\ input' = r.input
          /\ events' = r.events
    /\ pc' = "dispatch"
    /\ out' = <<>>
    /\ UNCHANGED <<exit_cause, state, pointer, physics, hints>>
    /\ Untouched

Dispatching == pc = "dispatch" /\ events # <<>>
Event == Head(events)

IsActivation == Event.pressed /\ InputManager_check_activation(input, Event.key, config.activation_key)
IsHintActivation ==
    /\ Event.pressed
    /\ ~InputManager_check_activation(input, Event.key, config.activation_key)
    /\ InputManager_check_activation(input, Event.key, config.hint_activation_key)

\* for event in events, Mode::Inactive, the activation chord
ActivateNormal ==
    /\ Dispatching /\ state.mode = "Inactive" /\ IsActivation
    /\ Take(OnActivateNormal(Cur), "dispatch", Tail(events))
    /\ Untouched

\* for event in events, Mode::Inactive, the hint activation chord
ActivateHint ==
    /\ Dispatching /\ state.mode = "Inactive" /\ IsHintActivation
    /\ Take(OnActivateHint(Cur, config), "dispatch", Tail(events))
    /\ Untouched

\* for event in events, Mode::Inactive, any other event
InactiveIgnore ==
    /\ Dispatching /\ state.mode = "Inactive" /\ ~IsActivation /\ ~IsHintActivation
    /\ Take({Outcome(Cur, "none")}, "dispatch", Tail(events))
    /\ Untouched

\* DispatchKey with a fault seeded: a key is dispatched only while no modifier is held
DispatchKey_chord_aware(im, st, ev, cfg) ==
    IF ModifierState_to_modifiers(im.modifier_state) # Modifiers_default
    THEN Ret(st, Action_None)
    ELSE AppState_process_key(st, ev.key, ev.pressed, cfg)

\* state.process_key(&event.key, event.pressed, &config) of the Normal | Hint arm:
\* of the KeyEvent only key and pressed are passed, of the InputManager nothing
DispatchKey(im, st, ev, cfg) == AppState_process_key(st, ev.key, ev.pressed, cfg)
Processed == DispatchKey(input, state, Event, config)
InMode(type) ==
    /\ Dispatching /\ state.mode \in {"Normal", "Hint"}
    /\ Processed.action.type = type
AfterKey == [Cur EXCEPT !.state = Processed.state]

DoExit ==
    /\ InMode("Exit")
    /\ Take(OnExit(AfterKey), "dispatch", Tail(events))
    /\ Untouched

DoEnterHint ==
    /\ InMode("EnterHint")
    /\ Take(OnEnterHint(AfterKey, config), "dispatch", Tail(events))
    /\ Untouched

DoClick ==
    /\ InMode("Click")
    /\ Take(OnClick(AfterKey, Processed.action.a), "dispatch", Tail(events))
    /\ Untouched

DoToggleDrag ==
    /\ InMode("ToggleDrag")
    /\ Take(OnToggleDrag(AfterKey), "dispatch", Tail(events))
    /\ Untouched

DoCopyAndExit ==
    /\ InMode("CopyAndExit")
    /\ Take(OnCopyAndExit(AfterKey), "dispatch", Tail(events))
    /\ Untouched

DoHintChar ==
    /\ InMode("HintChar")
    /\ Take(OnHintChar(AfterKey), "dispatch", Tail(events))
    /\ Untouched

\* the arms without a device call: EnterNormal, and `_ => {}`
DoOther ==
    /\ Dispatching /\ state.mode \in {"Normal", "Hint"}
    /\ Processed.action.type \notin {"Exit", "EnterHint", "Click", "ToggleDrag",
                                     "CopyAndExit", "HintChar"}
    /\ Take(IF Processed.action.type = "EnterNormal" THEN OnEnterNormal(AfterKey)
            ELSE {Outcome(AfterKey, "none")},
            "dispatch", Tail(events))
    /\ Untouched

\* after the for loop: the physics step and the frame sleep
EndTick ==
    /\ pc = "dispatch" /\ events = <<>>
    /\ Take(OnTick(Cur, config), "poll", <<>>)
    /\ Untouched

\* SIGINT or SIGTERM: no handler is installed, the process ends where it is and
\* nothing is dropped (the events not yet dispatched are lost with it)
Signal ==
    /\ pc \in {"poll", "dispatch"}
    /\ pc' = "killed"
    /\ events' = <<>>
    /\ out' = <<>>
    /\ UNCHANGED <<exit_cause, state, input, pointer, physics, hints>>
    /\ Untouched

NoCall == [op |-> "none", held_before |-> FALSE, out |-> <<>>, ok |-> TRUE]
NoRet == [done |-> FALSE]

\* the configuration of specification Spec: the defaults with a two-letter hint alphabet
LoopConfig == [Config_default EXCEPT !.hint_chars = <<"m", "x">>]

Init ==
    /\ pc = "poll"
    /\ exit_cause = "none"
    /\ config = LoopConfig
    /\ state = AppState_new
    /\ input = InputManager_new
    /\ pointer = VirtualPointer_new
    /\ physics = PhysicsState_new
    /\ hints = <<>>
    /\ events = <<>>
    /\ out = <<>>
    /\ call = NoCall
    /\ prev_call = NoCall
    /\ arg = <<>>
    /\ ret = NoRet

Next ==
    \/ Poll
    \/ ActivateNormal
    \/ ActivateHint
    \/ InactiveIgnore
    \/ DoExit
    \/ DoEnterHint
    \/ DoClick
    \/ DoToggleDrag
    \/ DoCopyAndExit
    \/ DoHintChar
    \/ DoOther
    \/ EndTick
    \/ Signal

Spec == Init /\ [][Next]_vars

(***************************************************************************)
(* Specification SpecPointer: any sequence of calls on one VirtualPointer,  *)
(* until it is dropped. `call` is the last call and `prev_call` the one     *)
(* before it: the operation, the flag it found, the records it wrote and    *)
(* Ok or Err; `arg` is the (dx, dy) of a move_mouse call.                   *)
(***************************************************************************)
\* which write_event of a call fails (0: none); click makes four
FailAts == 0..4

Called(op, r) ==
    /\ pointer.exists
    /\ pointer' = r.pointer
    /\ out' = r.out
    /\ prev_call' = call
    /\ call' = [op |-> op, held_before |-> pointer.drag_button_held, out |-> r.out, ok |-> r.ok]
    /\ UNCHANGED <<pc, exit_cause, config, state, input, physics, hints, events, ret>>

CallMoveMouse ==
    \E dx, dy \in {0, 3}, f \in FailAts :
        /\ Called("move_mouse", VirtualPointer_move_mouse(pointer, dx, dy, f))
        /\ arg' = <<dx, dy>>
CallClick ==
    \E b \in 0..3, f \in FailAts :
        /\ Called("click", VirtualPointer_click(pointer, b, f))
        /\ arg' = <<b>>
CallButton ==
    \E b \in 0..3, pressed \in BOOLEAN, f \in FailAts :
        /\ Called("button", VirtualPointer_button(pointer, b, pressed, f))
        /\ arg' = <<b, pressed>>
CallToggleDrag ==
    /\ \E f \in FailAts : Called("toggle_drag", VirtualPointer_toggle_drag(pointer, f))
    /\ arg' = <<>>
CallReleaseDrag ==
    /\ \E f \in FailAts : Called("release_drag", VirtualPointer_release_drag(pointer, f))
    /\ arg' = <<>>
CallScroll ==
    /\ \E f \in FailAts : Called("scroll", VirtualPointer_scroll(pointer, 1, f))
    /\ arg' = <<>>
CallHscroll ==
    /\ \E f \in FailAts : Called("hscroll", VirtualPointer_hscroll(pointer, 1, f))
    /\ arg' = <<>>
\* the VirtualPointer goes out of scope: Drop for VirtualPointer
CallDrop ==
    /\ \E f \in FailAts : Called("drop", VirtualPointer_drop(pointer, f))
    /\ arg' = <<>>

InitPointer ==
    /\ pc = "calls"
    /\ exit_cause = "none"
    /\ config = Config_default
    /\ state = AppState_new
    /\ input = InputManager_new
    /\ pointer = VirtualPointer_new
    /\ physics = PhysicsState_new
    /\ hints = <<>>
    /\ events = <<>>
    /\ out = <<>>
    /\ call = NoCall
    /\ prev_call = NoCall
    /\ arg = <<>>
    /\ ret = NoRet

NextPointer ==
    \/ CallMoveMouse
    \/ CallClick
    \/ CallButton
    \/ CallToggleDrag
    \/ CallReleaseDrag
    \/ CallScroll
    \/ CallHscroll
    \/ CallDrop

SpecPointer == InitPointer /\ [][NextPointer]_vars

(***************************************************************************)
(* Specification SpecState: any sequence of calls on one AppState, with    *)
(* the clearing of hint_buffer that run() does itself. `call` is the last  *)
(* call with the AppState it found and the key event it was given, `ret`   *)
(* the Action of process_key. `arg` is the configuration file: it sets     *)
(* `left` to the default "h" or to "H", and hint_chars to "mx".            *)
(***************************************************************************)
MaxHintBuffer == 2

StateKeys ==
    {"h", "j", "k", "l", "a", "d", "e", "r", "m", ",", ".", "v", "c", "x", "esc",
     "backspace", "q"}

StateCalled(op, st, action, key, pressed) ==
    /\ state' = st
    /\ call' = [op |-> op, before |-> state, key |-> key, pressed |-> pressed]
    /\ ret' = [done |-> TRUE, action |-> action]
    /\ UNCHANGED <<pc, exit_cause, config, input, pointer, physics, hints, events, out,
                   prev_call, arg>>

CallEnterNormal ==
    StateCalled("enter_normal", AppState_enter_normal(state), Action_None, "", FALSE)
CallEnterHint ==
    StateCalled("enter_hint", AppState_enter_hint(state), Action_None, "", FALSE)
CallExit == StateCalled("exit", AppState_exit(state), Action_None, "", FALSE)
CallProcessKey ==
    \E key \in StateKeys, pressed \in BOOLEAN :
        LET r == AppState_process_key(state, key, pressed, config)
        IN  /\ Len(r.state.hint_buffer) <= MaxHintBuffer
            /\ StateCalled("process_key", r.state, r.action, key, pressed)
\* state.hint_buffer.clear() of run(), when no hint starts with the buffer
ClearHintBuffer ==
    /\ state.mode = "Hint"
    /\ state.hint_buffer # <<>>
    /\ StateCalled("clear", [state EXCEPT !.hint_buffer = <<>>], Action_None, "", FALSE)

InitState ==
    /\ pc = "calls"
    /\ exit_cause = "none"
    /\ arg \in {[left |-> l, hint_chars |-> <<"m", "x">>] : l \in {<<"h">>, <<"H">>}}
    /\ config = Config_parse(arg)
    /\ state = AppState_new
    /\ input = InputManager_new
    /\ pointer = VirtualPointer_new
    /\ physics = PhysicsState_new
    /\ hints = <<>>
    /\ events = <<>>
    /\ out = <<>>
    /\ call = [op |-> "none", before |-> AppState_new, key |-> "", pressed |-> FALSE]
    /\ prev_call = NoCall
    /\ ret = [done |-> FALSE, action |-> Action_None]

NextState ==
    \/ CallEnterNormal
    \/ CallEnterHint
    \/ CallExit
    \/ CallProcessKey
    \/ ClearHintBuffer

SpecState == InitState /\ [][NextState]_vars

(***************************************************************************)
(* Specification SpecMatch: ModifierState::matches on every ModifierState, *)
(* every set of binding modifiers and two key names.                       *)
(***************************************************************************)
MatchKeys == {"c", "x"}
ModifierStates ==
    [left_alt : BOOLEAN, right_alt : BOOLEAN, left_ctrl : BOOLEAN, right_ctrl : BOOLEAN,
     left_shift : BOOLEAN, right_shift : BOOLEAN, left_meta : BOOLEAN, right_meta : BOOLEAN]
ModifierSets == [alt : BOOLEAN, ctrl : BOOLEAN, shift : BOOLEAN, super_key : BOOLEAN]

CallMatches ==
    /\ ~ret.done
    /\ ret' = [done |-> TRUE,
               val |-> ModifierState_matches(arg.modifier_state, arg.binding, arg.key_name)]
    /\ UNCHANGED <<pc, exit_cause, config, state, input, pointer, physics, hints, events,
                   out, call, prev_call, arg>>

InitMatch ==
    /\ pc = "calls"
    /\ exit_cause = "none"
    /\ config = Config_default
    /\ state = AppState_new
    /\ input = InputManager_new
    /\ pointer = VirtualPointer_new
    /\ physics = PhysicsState_new
    /\ hints = <<>>
    /\ events = <<>>
    /\ out = <<>>
    /\ call = NoCall
    /\ prev_call = NoCall
    /\ arg \in [modifier_state : ModifierStates,
                binding : [modifiers : ModifierSets, key : MatchKeys],
                key_name : MatchKeys]
    /\ ret = NoRet

NextMatch == CallMatches

SpecMatch == InitMatch /\ [][NextMatch]_vars

(***************************************************************************)
(* Specification SpecParse: KeyBinding::parse on every chord of at most    *)
(* MaxChordLen characters of ChordChars.                                   *)
(***************************************************************************)
ChordChars == {"A", "C", "S", "M", "-", "c", "X"}

CallParse ==
    /\ ~ret.done
    /\ ret' = [done |-> TRUE, val |-> KeyBinding_parse(arg)]
    /\ UNCHANGED <<pc, exit_cause, config, state, input, pointer, physics, hints, events,
                   out, call, prev_call, arg>>

InitParse ==
    /\ pc = "calls"
    /\ exit_cause = "none"
    /\ config = Config_default
    /\ state = AppState_new
    /\ input = InputManager_new
    /\ pointer = VirtualPointer_new
    /\ physics = PhysicsState_new
    /\ hints = <<>>
    /\ events = <<>>
    /\ out = <<>>
    /\ call = NoCall
    /\ prev_call = NoCall
    /\ arg \in SeqsUpTo(ChordChars, MaxChordLen)
    /\ ret = NoRet

NextParse == CallParse

SpecParse == InitParse /\ [][NextParse]_vars

(***************************************************************************)
(* Specification SpecInput: any sequence of grab and ungrab calls on one    *)
(* InputManager, between polls that each read one modifier key event.       *)
(* `call` is the last call: the operation, the InputManager it found, Ok or *)
(* Err, and whether a device call was made to fail during it.               *)
(***************************************************************************)
InputCalled(op, r, injected, held) ==
    /\ input' = r.input
    /\ call' = [op |-> op, before |-> input, ok |-> r.ok, injected |-> injected]
    /\ arg' = held
    /\ UNCHANGED <<pc, exit_cause, config, state, pointer, physics, hints, events, out,
                   prev_call, ret>>

CallGrab ==
    \E fail \in 0..NumDevices :
        InputCalled("grab", InputManager_grab(input, fail), fail # 0, arg)
CallUngrab ==
    \E failed \in SUBSET Devices :
        InputCalled("ungrab", InputManager_ungrab(input, failed), failed # {}, arg)
\* One modifier key goes down or up on the first keyboard and the event is polled.
\* `arg` follows the keyboard itself: the set of modifier keys that are down.
CallPollModifier ==
    \E code \in {"KEY_LEFTALT", "KEY_RIGHTCTRL", "KEY_LEFTSHIFT", "KEY_RIGHTMETA"},
       value \in {0, 1} :
        InputCalled("poll_events",
                    InputManager_poll_events(input,
                        [d \in Devices |->
                            IF d = 1 THEN ReadOk(<<[type |-> "KEY", code |-> code, value |-> value]>>)
                            ELSE ReadOk(<<>>)]),
                    FALSE,
                    IF value = 1 THEN arg \cup {code} ELSE arg \ {code})

InitInput ==
    /\ pc = "calls"
    /\ exit_cause = "none"
    /\ config = Config_default
    /\ state = AppState_new
    /\ input = InputManager_new
    /\ pointer = VirtualPointer_new
    /\ physics = PhysicsState_new
    /\ hints = <<>>
    /\ events = <<>>
    /\ out = <<>>
    /\ call = [op |-> "none", before |-> InputManager_new, ok |-> TRUE, injected |-> FALSE]
    /\ prev_call = NoCall
    /\ arg = {}
    /\ ret = NoRet

SpecInput == InitInput /\ [][CallGrab \/ CallUngrab \/ CallPollModifier]_vars

(***************************************************************************)
(* Specification SpecPoll: one poll_events call. `arg` is what the devices  *)
(* deliver: at most MaxBatch events, the first ones on device 1 and the     *)
(* rest on the last device, and either read may fail. The events are key    *)
(* presses, releases and repeats of a modifier and of named and unnamed     *)
(* keys, and events that are no key events. A modifier may already be held. *)
(***************************************************************************)
CallPoll ==
    /\ ~ret.done
    /\ LET r == InputManager_poll_events(input, arg)
       IN  /\ input' = r.input
           /\ events' = r.events
           /\ ret' = [done |-> TRUE, ok |-> r.ok, before |-> input]
    /\ UNCHANGED <<pc, exit_cause, config, state, pointer, physics, hints, out, call,
                   prev_call, arg>>

InitPoll ==
    /\ pc = "calls"
    /\ exit_cause = "none"
    /\ config = Config_default
    /\ state = AppState_new
    /\ input \in {InputManager_new,
                  [InputManager_new EXCEPT !.modifier_state.left_alt = TRUE]}
    /\ pointer = VirtualPointer_new
    /\ physics = PhysicsState_new
    /\ hints = <<>>
    /\ events = <<>>
    /\ out = <<>>
    /\ call = NoCall
    /\ prev_call = NoCall
    /\ arg \in UNION { { [d \in Devices |->
                            IF d \in failed THEN ReadErr
                            ELSE IF d = 1 THEN ReadOk(SubSeq(s, 1, c))
                            ELSE IF d = NumDevices THEN ReadOk(SubSeq(s, c + 1, Len(s)))
                            ELSE ReadOk(<<>>)]
                        : c \in 0..Len(s), failed \in SUBSET {1, NumDevices} }
                      : s \in SeqsUpTo({[type |-> "KEY", code |-> "KEY_LEFTALT", value |-> 1],
                                        [type |-> "KEY", code |-> "KEY_LEFTALT", value |-> 0],
                                        [type |-> "KEY", code |-> "KEY_LEFTALT", value |-> 2],
                                        [type |-> "KEY", code |-> "KEY_C", value |-> 1],
                                        [type |-> "KEY", code |-> "KEY_C", value |-> 2],
                                        [type |-> "KEY", code |-> "KEY_CAPSLOCK", value |-> 1],
                                        [type |-> "MSC", code |-> "MSC_SCAN", value |-> 2]},
                                       MaxBatch) }
    /\ ret = NoRet

SpecPoll == InitPoll /\ [][CallPoll]_vars

(***************************************************************************)
(* Specification SpecDirection: MovementState::direction on every          *)
(* MovementState.                                                          *)
(***************************************************************************)
CallDirection ==
    /\ ~ret.done
    /\ ret' = [done |-> TRUE, val |-> MovementState_direction(arg)]
    /\ UNCHANGED <<pc, exit_cause, config, state, input, pointer, physics, hints, events,
                   out, call, prev_call, arg>>

InitDirection ==
    /\ pc = "calls"
    /\ exit_cause = "none"
    /\ config = Config_default
    /\ state = AppState_new
    /\ input = InputManager_new
    /\ pointer = VirtualPointer_new
    /\ physics = PhysicsState_new
    /\ hints = <<>>
    /\ events = <<>>
    /\ out = <<>>
    /\ call = NoCall
    /\ prev_call = NoCall
    /\ arg \in [left : BOOLEAN, right : BOOLEAN, up : BOOLEAN, down : BOOLEAN,
                accelerating : BOOLEAN, decelerating : BOOLEAN]
    /\ ret = NoRet

SpecDirection == InitDirection /\ [][CallDirection]_vars

(***************************************************************************)
(* Specification SpecPhysics: the physics step of run() in Normal mode     *)
(* with the movement flags held as they are and no scroll key held, from  *)
(* a range of velocities. arg.elapsed is the time since last_update in ms  *)
(* (anything above 100 is kept as 120): it grows while the loop sleeps or  *)
(* works, and update() measures it as dt and sets last_update to now.      *)
(* `call` is the last step: the operation, the dt it measured, the         *)
(* PhysicsState it found and the (dx, dy, scroll) it returned.             *)
(***************************************************************************)
\* time passes between two calls of update: a frame, or a longer delay
Elapse ==
    /\ arg.elapsed <= 100
    /\ \E d \in {20, 50} :
          arg' = [elapsed |-> IF arg.elapsed + d > 100 THEN 120 ELSE arg.elapsed + d]
    /\ call' = [op |-> "sleep", dt |-> 0, before |-> physics, ret |-> <<0, 0, 0>>]
    /\ UNCHANGED <<pc, exit_cause, config, state, input, pointer, physics, hints, events,
                   out, prev_call, ret>>

\* physics.update(&state, &config): dt = now - last_update; last_update = now
Update ==
    /\ LET u == PhysicsState_update(physics, state, config, arg.elapsed)
       IN  /\ physics' = u.physics
           /\ call' = [op |-> "update", dt |-> arg.elapsed, before |-> physics,
                       ret |-> <<u.dx, u.dy, u.scroll>>]
    /\ arg' = [elapsed |-> 0]
    /\ UNCHANGED <<pc, exit_cause, config, state, input, pointer, hints, events, out,
                   prev_call, ret>>

InitPhysics ==
    /\ pc = "calls"
    /\ exit_cause = "none"
    /\ config = Config_default
    /\ \E dirs \in {{}, {"left", "right", "up", "down"}, {"right"}, {"left", "up"}},
          accelerating \in BOOLEAN, decelerating \in BOOLEAN :
          state = [AppState_enter_normal(AppState_new) EXCEPT
                      !.movement = [left |-> "left" \in dirs, right |-> "right" \in dirs,
                                    up |-> "up" \in dirs, down |-> "down" \in dirs,
                                    accelerating |-> accelerating,
                                    decelerating |-> decelerating]]
    /\ input = InputManager_new
    /\ pointer = VirtualPointer_new
    /\ physics \in {PhysicsState_new,
                    [velocity_x |-> 1600000, velocity_y |-> -220000, scroll_velocity |-> 0],
                    [velocity_x |-> 100500, velocity_y |-> -30000, scroll_velocity |-> 250000]}
    /\ hints = <<>>
    /\ events = <<>>
    /\ out = <<>>
    /\ call = [op |-> "none", dt |-> 0, before |-> physics, ret |-> <<0, 0, 0>>]
    /\ prev_call = NoCall
    /\ arg = [elapsed |-> 0]
    /\ ret = NoRet

\* the loop never stops: time goes on and update is called again
SpecPhysics ==
    InitPhysics /\ [][Elapse \/ Update]_vars /\ WF_vars(Elapse) /\ WF_vars(Update)

(***************************************************************************)
(* Specification SpecHints: calculate_hints on a canvas and an alphabet,   *)
(* then find_hint_by_prefix and find_hint_exact on the grid it returned.   *)
(* arg is the canvas and hint_chars (repeated characters included, the     *)
(* configuration accepts any string); `call` is the last call: the query   *)
(* string q and what the lookup returned. One lookup is made on each grid. *)
(***************************************************************************)
MaxAlphabet == 3

CallCalculateHints ==
    /\ call.op = "none"
    /\ hints' = calculate_hints(arg.width, arg.height, arg.hint_chars, config.hint_size)
    /\ call' = [call EXCEPT !.op = "calculate_hints"]
    /\ UNCHANGED <<pc, exit_cause, config, state, input, pointer, physics, events, out,
                   prev_call, arg, ret>>

CallFindByPrefix ==
    /\ call.op = "calculate_hints"
    /\ \E q \in SeqsUpTo({"a", "b", "c"}, MaxAlphabet) :
          call' = [call EXCEPT !.op = "find_hint_by_prefix", !.q = q,
                               !.matches = find_hint_by_prefix(hints, q)]
    /\ UNCHANGED <<pc, exit_cause, config, state, input, pointer, physics, hints, events,
                   out, prev_call, arg, ret>>

CallFindExact ==
    /\ call.op = "calculate_hints"
    /\ \E q \in SeqsUpTo({"a", "b", "c"}, MaxAlphabet) :
          call' = [call EXCEPT !.op = "find_hint_exact", !.q = q,
                               !.exact = find_hint_exact(hints, q)]
    /\ UNCHANGED <<pc, exit_cause, config, state, input, pointer, physics, hints, events,
                   out, prev_call, arg, ret>>

InitHints ==
    /\ pc = "calls"
    /\ exit_cause = "none"
    /\ config = Config_default
    /\ state = AppState_new
    /\ input = InputManager_new
    /\ pointer = VirtualPointer_new
    /\ physics = PhysicsState_new
    /\ hints = <<>>
    /\ events = <<>>
    /\ out = <<>>
    /\ call = [op |-> "none", q |-> <<>>, matches |-> <<>>,
               exact |-> find_hint_exact(<<>>, <<>>)]
    /\ prev_call = NoCall
    /\ \E canvas \in {<<1920, 1080>>, <<1080, 1920>>, <<1920, 1>>, <<3, 2>>} :
       \E cs \in SeqsUpTo({"a", "b", "c"}, MaxAlphabet) :
          arg = [width |-> canvas[1], height |-> canvas[2], hint_chars |-> cs]
    /\ ret = NoRet

SpecHints == InitHints /\ [][CallCalculateHints \/ CallFindByPrefix \/ CallFindExact]_vars

(***************************************************************************)
(* Specification SpecModifiers: any sequence of update calls on one        *)
(* ModifierState (input.modifier_state), for the eight modifier keys and   *)
(* the key c. `arg` keeps, for each key code, whether its last update was  *)
(* a press; `call` is the last call with the ModifierState it found and    *)
(* `ret` what to_modifiers() returns after it.                             *)
(***************************************************************************)
CallUpdate ==
    /\ \E code \in DOMAIN arg, pressed \in BOOLEAN :
          /\ input' = [input EXCEPT !.modifier_state = ModifierState_update(@, code, pressed)]
          /\ arg' = [arg EXCEPT ![code] = pressed]
          /\ call' = [op |-> "update", code |-> code, pressed |-> pressed,
                      before |-> input.modifier_state]
    /\ ret' = [done |-> TRUE, mods |-> ModifierState_to_modifiers(input'.modifier_state)]
    /\ UNCHANGED <<pc, exit_cause, config, state, pointer, physics, hints, events, out,
                   prev_call>>

InitModifiers ==
    /\ pc = "calls"
    /\ exit_cause = "none"
    /\ config = Config_default
    /\ state = AppState_new
    /\ input = InputManager_new
    /\ pointer = VirtualPointer_new
    /\ physics = PhysicsState_new
    /\ hints = <<>>
    /\ events = <<>>
    /\ out = <<>>
    /\ call = [op |-> "none", code |-> "", pressed |-> FALSE, before |-> ModifierState_default]
    /\ prev_call = NoCall
    /\ arg = [code \in {"KEY_LEFTALT", "KEY_RIGHTALT", "KEY_LEFTCTRL", "KEY_RIGHTCTRL",
                        "KEY_LEFTSHIFT", "KEY_RIGHTSHIFT", "KEY_LEFTMETA", "KEY_RIGHTMETA",
                        "KEY_C"} |-> FALSE]
    /\ ret = [done |-> FALSE, mods |-> ModifierState_to_modifiers(ModifierState_default)]

SpecModifiers == InitModifiers /\ [][CallUpdate]_vars

(***************************************************************************)
(* Specification SpecModes: the mode transitions of run() taken with the   *)
(* pointer in motion. It starts Inactive at rest or in Normal mode with a  *)
(* movement key held and the velocity update() has given it, and takes the *)
(* arms of run() that change the mode, in any order the modes allow, with  *)
(* the physics step of the end of a loop iteration between them.           *)
(* `call` is the last arm taken and the PhysicsState it found; `out` holds *)
(* the records that arm wrote.                                             *)
(***************************************************************************)
\* one arm of run(): the handler of the activation chords in Inactive, and in Normal
\* and Hint of the Action that process_key returned; "tick" is the end of a loop
\* iteration, the physics step after the events
Transition(arm) ==
    /\ pc = "calls"
    /\ \/ /\ arm = "activate_normal" /\ state.mode = "Inactive"
          /\ Take(OnActivateNormal(Cur), "calls", <<>>)
       \/ /\ arm = "activate_hint" /\ state.mode = "Inactive"
          /\ Take(OnActivateHint(Cur, config), "calls", <<>>)
       \/ /\ arm = "exit" /\ state.mode \in {"Normal", "Hint"}
          /\ Take(OnExit(Cur), "calls", <<>>)
       \/ /\ arm = "enter_hint" /\ state.mode = "Normal"
          /\ Take(OnEnterHint(Cur, config), "calls", <<>>)
       \/ /\ arm = "copy_and_exit" /\ state.mode = "Normal"
          /\ Take(OnCopyAndExit(Cur), "calls", <<>>)
       \/ /\ arm = "hint_char" /\ state.mode = "Hint"
          /\ \E ch \in {"m", "x"} :
                Take(OnHintChar([Cur EXCEPT !.state =
                        AppState_process_key(state, ch, TRUE, config).state]), "calls", <<>>)
       \/ /\ arm = "tick"
          /\ Take(OnTick(Cur, config), "calls", <<>>)
    /\ call' = [op |-> arm, before |-> physics]
    /\ UNCHANGED <<config, prev_call, arg, ret>>

InitModes ==
    /\ pc = "calls"
    /\ exit_cause = "none"
    /\ config = LoopConfig
    /\ \/ /\ state = AppState_new
          /\ input = InputManager_new
          /\ physics = PhysicsState_new
       \/ /\ state = [AppState_enter_normal(AppState_new) EXCEPT !.movement.right = TRUE]
          /\ input = InputManager_grab(InputManager_new, 0).input
          /\ physics \in {[velocity_x |-> 11200, velocity_y |-> 0, scroll_velocity |-> 0],
                          [velocity_x |-> 220000, velocity_y |-> 0, scroll_velocity |-> 0],
                          [velocity_x |-> 220000, velocity_y |-> -198800, scroll_velocity |-> 0],
                          [velocity_x |-> 11200, velocity_y |-> 0, scroll_velocity |-> 25600]}
       \/ /\ state = [AppState_enter_normal(AppState_new) EXCEPT !.movement.right = TRUE,
                                                                  !.scroll.down = TRUE]
          /\ input = InputManager_grab(InputManager_new, 0).input
          /\ physics = [velocity_x |-> 220000, velocity_y |-> 0, scroll_velocity |-> 8985600]
    /\ pointer = VirtualPointer_new
    /\ hints = <<>>
    /\ events = <<>>
    /\ out = <<>>
    /\ call = [op |-> "none", before |-> physics]
    /\ prev_call = NoCall
    /\ arg = <<>>
    /\ ret = NoRet

SpecModes ==
    InitModes
    /\ [][\E arm \in {"activate_normal", "activate_hint", "exit", "enter_hint",
                        "copy_and_exit", "hint_char", "tick"} : Transition(arm)]_vars

(***************************************************************************)
(* Properties of run() (specification Spec)                                *)
(***************************************************************************)
Running == pc \in {"poll", "dispatch"}
Ended == pc \in {"returned", "killed"}

\* C1: on every path by which run() ends (a failed grab(), a failed write to the
\* virtual pointer, a termination signal) every keyboard that was grabbed has been
\* given back by ungrab and the virtual device has been destroyed by UI_DEV_DESTROY,
\* exactly once.
C1_TeardownOnEveryExit ==
    Ended =>
        /\ \A d \in Devices : ~input.devices[d]
        /\ ~pointer.exists
        /\ pointer.destroy_calls = 1

\* C2: while run() is looping, at the top of the loop and between two events, the
\* keyboards are grabbed (InputManager.grabbed) if and only if the mode is Normal
\* or Hint.
C2_GrabbedIffActive ==
    Running => (input.grabbed <=> state.mode \in {"Normal", "Hint"})

\* a mode was left for Inactive (a button record exists only after Normal mode)
\* and the loop is at its top with the keyboards released
C2_Witness ==
    /\ pc = "poll"
    /\ state.mode = "Inactive"
    /\ ~input.grabbed
    /\ pointer.left # "none"

\* C6: in every state the loop reaches, hint_buffer is non-empty only if the mode
\* is Hint.
C6_HintBufferOnlyInHint ==
    state.hint_buffer # <<>> => state.mode = "Hint"

\* a hint character was typed and the loop is at its top
C6_Witness ==
    /\ pc = "poll"
    /\ state.mode = "Hint"
    /\ Len(state.hint_buffer) = 1

\* C7: while Inactive, dispatching a key event enters Normal (resp. Hint) mode if
\* and only if it is a press of the activation (resp. hint activation) key and the
\* event's own modifier snapshot equals the binding's modifiers.
C7_ActivationBySnapshot ==
    [][(Dispatching /\ state.mode = "Inactive" /\ pc' # "killed") =>
          /\ state'.mode = "Normal" <=>
                /\ Event.pressed
                /\ Event.key = config.activation_key.key
                /\ Event.modifiers = config.activation_key.modifiers
          /\ state'.mode = "Hint" <=>
                /\ Event.pressed
                /\ Event.key = config.hint_activation_key.key
                /\ Event.modifiers = config.hint_activation_key.modifiers]_vars

\* C10: a failed write to the virtual pointer or a failed read of a keyboard never
\* ends run(): it returns for no such reason.
C10_IoFailureNotFatal ==
    pc = "returned" => exit_cause \notin {"write", "read"}

(***************************************************************************)
(* Properties of VirtualPointer (specification SpecPointer)                *)
(***************************************************************************)
\* C3: after every sequence of VirtualPointer calls, drag_button_held implies that
\* the last left-button record the device received is a press.
C3_HeldImpliesPressed ==
    pointer.drag_button_held => pointer.left = "down"

\* C4: two consecutive release_drag calls emit exactly one left-button release
\* when the first found a button held, and none when it found none held.
C4_ReleaseDragIdempotent ==
    LET recs == prev_call.out \o call.out
        releases == {i \in 1..Len(recs) :
                        recs[i] = [type |-> EV_KEY, code |-> BTN_LEFT, value |-> 0]}
    IN  (prev_call.op = "release_drag" /\ call.op = "release_drag") =>
            Cardinality(releases) = (IF prev_call.held_before THEN 1 ELSE 0)

(***************************************************************************)
(* Properties of AppState (specification SpecState)                        *)
(***************************************************************************)
\* C5: after enter_normal, enter_hint and exit, whatever the AppState before, the
\* six movement flags and the two scroll flags are false and hint_buffer is empty;
\* the mode is Normal, Hint and Inactive respectively, and after exit drag_active
\* is false.
C5_EntryClears ==
    LET cleared ==
            /\ ~state.movement.left /\ ~state.movement.right
            /\ ~state.movement.up /\ ~state.movement.down
            /\ ~state.movement.accelerating /\ ~state.movement.decelerating
            /\ ~state.scroll.up /\ ~state.scroll.down
            /\ state.hint_buffer = <<>>
    IN  /\ call.op = "enter_normal" => cleared /\ state.mode = "Normal"
        /\ call.op = "enter_hint" => cleared /\ state.mode = "Hint"
        /\ call.op = "exit" => cleared /\ state.mode = "Inactive" /\ ~state.drag_active

\* enter_hint was called on an AppState with movement, speed and scroll flags set
C5_Witness ==
    /\ call.op = "enter_hint"
    /\ call.before.mode = "Normal"
    /\ call.before.movement.left
    /\ call.before.movement.accelerating
    /\ call.before.scroll.down
    /\ call.before.drag_active

(***************************************************************************)
(* Properties of ModifierState::matches (specification SpecMatch)          *)
(***************************************************************************)
\* C8: matches(binding, key_name) is true if and only if key_name is the binding's
\* key and each of alt, ctrl, shift and super is held (on the left or on the right)
\* exactly when the binding names it.
C8_MatchesExactly ==
    ret.done =>
        (ret.val <=>
            /\ arg.key_name = arg.binding.key
            /\ (arg.modifier_state.left_alt \/ arg.modifier_state.right_alt)
                   <=> arg.binding.modifiers.alt
            /\ (arg.modifier_state.left_ctrl \/ arg.modifier_state.right_ctrl)
                   <=> arg.binding.modifiers.ctrl
            /\ (arg.modifier_state.left_shift \/ arg.modifier_state.right_shift)
                   <=> arg.binding.modifiers.shift
            /\ (arg.modifier_state.left_meta \/ arg.modifier_state.right_meta)
                   <=> arg.binding.modifiers.super_key)

\* a binding of alt+super matched with right alt and left meta held and nothing else
C8_Witness ==
    /\ ret.done
    /\ ret.val
    /\ arg.binding.modifiers = [alt |-> TRUE, ctrl |-> FALSE, shift |-> FALSE, super_key |-> TRUE]
    /\ arg.modifier_state.right_alt /\ ~arg.modifier_state.left_alt
    /\ arg.modifier_state.left_meta

(***************************************************************************)
(* Properties of KeyBinding::parse (specification SpecParse)               *)
(***************************************************************************)
\* C9: parse(chord) succeeds if and only if the text after the last '-' is not
\* empty and the text before it is a run of "A-", "C-", "S-", "M-"; the key is the
\* text after the last '-' lowercased, and alt, ctrl, shift, super are set exactly
\* when A, C, S, M stand before it; every other chord is an error.
C9_ParseChord ==
    LET n == Len(arg)
        dashes == {i \in 1..n : arg[i] = "-"}
        last == IF dashes = {} THEN 0 ELSE CHOOSE i \in dashes : \A j \in dashes : j <= i
        wellFormed ==
            /\ last % 2 = 0
            /\ \A i \in 1..last :
                  IF i % 2 = 0 THEN arg[i] = "-" ELSE arg[i] \in {"A", "C", "S", "M"}
        low(c) == CASE c = "A" -> "a" [] c = "C" -> "c" [] c = "S" -> "s"
                    [] c = "M" -> "m" [] c = "X" -> "x" [] OTHER -> c
        RECURSIVE text(_)
        text(i) == IF i > n THEN "" ELSE low(arg[i]) \o text(i + 1)
        has(m) == \E i \in 1..last : arg[i] = m
    IN  ret.done =>
            IF wellFormed /\ last < n
            THEN /\ ret.val.ok
                 /\ ret.val.key = text(last + 1)
                 /\ ret.val.modifiers = [alt |-> has("A"), ctrl |-> has("C"),
                                         shift |-> has("S"), super_key |-> has("M")]
            ELSE ~ret.val.ok

\* "A-M-X" parsed to alt and super with the key lowercased
C9_Witness ==
    /\ ret.done
    /\ arg = <<"A", "-", "M", "-", "X">>
    /\ ret.val.ok
    /\ ret.val.key = "x"
    /\ ret.val.modifiers = [alt |-> TRUE, ctrl |-> FALSE, shift |-> FALSE, super_key |-> TRUE]

(***************************************************************************)
(* Properties of InputManager (specification SpecInput)                    *)
(***************************************************************************)
\* C11 as stated: after every call of ungrab, whether or not a device failed to
\* ungrab, the call returned Ok, grabbed is false and the eight modifier flags are
\* false.
C11_UngrabAlwaysResets ==
    call.op = "ungrab" =>
        /\ call.ok
        /\ ~input.grabbed
        /\ \A f \in DOMAIN input.modifier_state : ~input.modifier_state[f]

\* C11 amended: after every call of ungrab, whether or not a device failed to
\* ungrab, the call returned Ok and grabbed is false; if the call found grabbed
\* true the eight modifier flags are false, otherwise they are as they were.
C11_UngrabResetsWhenGrabbed ==
    call.op = "ungrab" =>
        /\ call.ok
        /\ ~input.grabbed
        /\ IF call.before.grabbed
           THEN \A f \in DOMAIN input.modifier_state : ~input.modifier_state[f]
           ELSE input.modifier_state = call.before.modifier_state

\* ungrab found the keyboards grabbed and two modifiers held, and a device failed to ungrab
C11_Witness ==
    /\ call.op = "ungrab"
    /\ call.injected
    /\ call.before.grabbed
    /\ call.before.modifier_state.left_alt
    /\ call.before.modifier_state.right_meta
    /\ \E d \in Devices : input.devices[d]

\* C12: grab called when grabbed is true, and ungrab called when grabbed is false,
\* return Ok and leave grabbed, the devices and the modifier state as they were,
\* whatever device call would have failed: no device call is made.
C12_GrabUngrabIdempotent ==
    /\ (call.op = "grab" /\ call.before.grabbed) => (call.ok /\ input = call.before)
    /\ (call.op = "ungrab" /\ ~call.before.grabbed) => (call.ok /\ input = call.before)

\* ungrab was called with nothing grabbed while a modifier was held and a device
\* still grabbed from an ungrab that had failed on it
C12_Witness ==
    /\ call.op = "ungrab"
    /\ call.injected
    /\ ~call.before.grabbed
    /\ call.before.modifier_state.left_alt
    /\ \E d \in Devices : call.before.devices[d]

(***************************************************************************)
(* Properties of poll_events (specification SpecPoll)                      *)
(***************************************************************************)
\* C13: a key event with the repeat value 2 is discarded by poll_events: the
\* KeyEvents returned and the modifier state left are those of the same reads with
\* every repeat taken out, and no KeyEvent is returned for a read of repeats only.
C13_RepeatDiscarded ==
    LET repeat(e) == e.type = "KEY" /\ e.value = 2
        RECURSIVE strip(_)
        strip(evs) == IF evs = <<>> THEN <<>>
                      ELSE IF repeat(Head(evs)) THEN strip(Tail(evs))
                      ELSE <<Head(evs)>> \o strip(Tail(evs))
        stripped == [d \in Devices |-> [arg[d] EXCEPT !.evs = strip(@)]]
        r == InputManager_poll_events(ret.before, stripped)
    IN  ret.done =>
            /\ events = r.events
            /\ input.modifier_state = r.input.modifier_state
            /\ (\A d \in Devices : strip(arg[d].evs) = <<>>) =>
                   (events = <<>> /\ input.modifier_state = ret.before.modifier_state)

\* a repeat of the held Alt key and a repeat of c were read and left nothing behind
C13_Witness ==
    /\ ret.done
    /\ ret.before.modifier_state.left_alt
    /\ arg[1] = ReadOk(<<[type |-> "KEY", code |-> "KEY_LEFTALT", value |-> 2],
                         [type |-> "KEY", code |-> "KEY_C", value |-> 2]>>)
    /\ events = <<>>
    /\ input.modifier_state.left_alt

C15_Direction ==
    LET n(flag) == IF flag THEN 1 ELSE 0
    IN  ret.done =>
            /\ ret.val = <<n(arg.right) - n(arg.left), n(arg.down) - n(arg.up)>>
            /\ (arg.left /\ arg.right) => ret.val[1] = 0
            /\ (arg.up /\ arg.down) => ret.val[2] = 0

\* left and right held with up: the direction is (0, -1)
C15_Witness ==
    /\ ret.done
    /\ arg.left /\ arg.right /\ arg.up /\ ~arg.down
    /\ ret.val = <<0, -1>>

(***************************************************************************)
(* Properties of PhysicsState::update (specification SpecPhysics)          *)
(***************************************************************************)
ValidTick == call.op = "update" /\ 0 < call.dt /\ call.dt <= 100

\* C16: with a nonzero direction held and the accelerating and decelerating flags
\* as they are, when valid ticks (0 < dt <= 100 ms) keep coming each velocity
\* component eventually equals direction x target speed (decelerator_speed if
\* decelerating, else max_speed if accelerating, else speed; at most max_speed)
\* and stays there.
C16_ConvergesToTarget ==
    LET dir == MovementState_direction(state.movement)
        wanted == IF state.movement.decelerating THEN config.decelerator_speed
                  ELSE IF state.movement.accelerating THEN config.max_speed
                  ELSE config.speed
        target == IF wanted > config.max_speed THEN config.max_speed ELSE wanted
    IN  (dir # <<0, 0>> /\ []<>ValidTick) =>
            <>[](/\ physics.velocity_x = dir[1] * target * 1000
                 /\ physics.velocity_y = dir[2] * target * 1000)

\* C17: with zero direction, whatever the accelerating and decelerating flags, a
\* valid tick moves each velocity component toward 0 by 2 x acceleration x dt
\* without crossing 0, and when valid ticks keep coming both components
\* eventually are 0 and stay 0.
C17_StopsAtZero ==
    LET zero == MovementState_direction(state.movement) = <<0, 0>>
        toward0(v, step) == IF v > 0 THEN (IF v - step < 0 THEN 0 ELSE v - step)
                            ELSE IF v < 0 THEN (IF v + step > 0 THEN 0 ELSE v + step)
                            ELSE 0
    IN  /\ []((zero /\ ValidTick) =>
                 /\ physics.velocity_x
                        = toward0(call.before.velocity_x, 2 * config.acceleration * call.dt)
                 /\ physics.velocity_y
                        = toward0(call.before.velocity_y, 2 * config.acceleration * call.dt))
        /\ ((zero /\ []<>ValidTick) =>
               <>[](physics.velocity_x = 0 /\ physics.velocity_y = 0))

\* opposite keys held with the decelerator key, and a valid tick has brought both
\* components from nonzero velocities to 0
C17_Witness ==
    /\ state.movement.left /\ state.movement.right
    /\ state.movement.decelerating
    /\ ValidTick
    /\ call.before.velocity_x > 0 /\ call.before.velocity_y < 0
    /\ physics.velocity_x = 0 /\ physics.velocity_y = 0

\* C18: an update that measures dt <= 0 or dt > 100 ms returns (0, 0, 0), leaves
\* the three velocities as they were and sets last_update to now, so that the next
\* update measures its dt from this one.
C18_StallTick ==
    (call.op = "update" /\ (call.dt <= 0 \/ call.dt > 100)) =>
        /\ call.ret = <<0, 0, 0>>
        /\ physics = call.before
        /\ arg.elapsed = 0

\* an update measured more than 100 ms with a direction held and all three
\* velocities nonzero
C18_Witness ==
    /\ call.op = "update"
    /\ call.dt > 100
    /\ state.movement.right
    /\ physics.velocity_x # 0 /\ physics.velocity_y # 0 /\ physics.scroll_velocity # 0

(***************************************************************************)
(* Properties of the hint grid (specification SpecHints)                   *)
(***************************************************************************)
\* C19: on a canvas with width and height above 0 and an alphabet of length n,
\* calculate_hints returns exactly n * n points, laid out row by row on a grid
\* (some row width w: point i is in column i mod w of row i div w), and point i
\* (from 0) is labelled alphabet[i div n] alphabet[i mod n].
C19_GridLabels ==
    LET n == Len(arg.hint_chars)
    IN  (call.op # "none" /\ arg.width > 0 /\ arg.height > 0) =>
            /\ Len(hints) = n * n
            /\ \A i \in 1..Len(hints) :
                  hints[i].label = <<arg.hint_chars[((i - 1) \div n) + 1],
                                     arg.hint_chars[((i - 1) % n) + 1]>>
            /\ Len(hints) > 0 =>
                  \E w \in 1..Len(hints) :
                     \A i \in 1..Len(hints) :
                        /\ hints[i].x = (((i - 1) % w) + 1) * hints[1].x
                        /\ hints[i].y = (((i - 1) \div w) + 1) * hints[1].y
                        /\ hints[i].x <= arg.width
                        /\ hints[i].y <= arg.height

\* nine points on the 1920 x 1080 canvas in more than one row, the second labelled
\* with the first and second character of the alphabet
C19_Witness ==
    /\ call.op = "calculate_hints"
    /\ arg.width = 1920 /\ arg.height = 1080
    /\ arg.hint_chars = <<"a", "b", "c">>
    /\ Len(hints) = 9
    /\ hints[2].label = <<"a", "b">>
    /\ hints[9].y > hints[1].y
    /\ hints[2].x > hints[1].x

\* C20: find_hint_by_prefix(hints, p) returns exactly the hints whose label starts
\* with p, in list order (all of them for the empty prefix, none when no label
\* starts with p); find_hint_exact(hints, l) returns the hint whose label is l,
\* and in a grid from calculate_hints no other hint has that label, or none
\* when no label is l.
C20_FindHint ==
    LET starts(label, p) == Len(p) <= Len(label) /\ \A k \in 1..Len(p) : label[k] = p[k]
        idx == {i \in 1..Len(hints) : starts(hints[i].label, call.q)}
        nth(k) == CHOOSE i \in idx : Cardinality({j \in idx : j < i}) = k - 1
        same == {i \in 1..Len(hints) : hints[i].label = call.q}
    IN  /\ call.op = "find_hint_by_prefix" =>
              /\ Len(call.matches) = Cardinality(idx)
              /\ \A k \in 1..Len(call.matches) : call.matches[k] = hints[nth(k)]
              /\ call.q = <<>> => call.matches = hints
        /\ call.op = "find_hint_exact" =>
              /\ call.exact.some <=> same # {}
              /\ call.exact.some => call.exact.hint.label = call.q
              /\ Cardinality(same) <= 1

\* C20 (amended): find_hint_by_prefix as above; find_hint_exact(hints, l) returns
\* the first hint in list order whose label is l, or none when no label is l, and
\* that hint is the only one with the label when hint_chars has no repeated
\* character.
C20_FindHintFirst ==
    LET starts(label, p) == Len(p) <= Len(label) /\ \A k \in 1..Len(p) : label[k] = p[k]
        idx == {i \in 1..Len(hints) : starts(hints[i].label, call.q)}
        nth(k) == CHOOSE i \in idx : Cardinality({j \in idx : j < i}) = k - 1
        same == {i \in 1..Len(hints) : hints[i].label = call.q}
        chars == arg.hint_chars
        distinct == \A i, j \in 1..Len(chars) : chars[i] = chars[j] => i = j
    IN  /\ call.op = "find_hint_by_prefix" =>
              /\ Len(call.matches) = Cardinality(idx)
              /\ \A k \in 1..Len(call.matches) : call.matches[k] = hints[nth(k)]
              /\ call.q = <<>> => call.matches = hints
        /\ call.op = "find_hint_exact" =>
              /\ call.exact.some <=> same # {}
              /\ call.exact.some =>
                    \E i \in same : /\ \A j \in same : i <= j
                                    /\ call.exact.hint = hints[i]
              /\ distinct => Cardinality(same) <= 1

\* hint_chars "aba" on the 1920 x 1080 canvas: the label "aa" is on four hints at
\* different places and find_hint_exact has returned one of them
C20_Witness ==
    /\ call.op = "find_hint_exact"
    /\ arg.hint_chars = <<"a", "b", "a">>
    /\ arg.width = 1920 /\ arg.height = 1080
    /\ call.q = <<"a", "a">>
    /\ call.exact.some
    /\ Cardinality({i \in 1..Len(hints) : hints[i].label = call.q}) = 4
    /\ hints[1] # hints[3]

(***************************************************************************)
(* Properties of the Hint and Normal arms of run() (specification Spec)    *)
(***************************************************************************)
\* C21: in Hint mode, when the press of an alphabet character makes hint_buffer the
\* label of a hint, the dispatch of that event ends in Inactive with the keyboards
\* ungrabbed, the hint list and hint_buffer empty and no record written to the
\* pointer; run() does not return and the mode is never Normal.
C21_HintMatchExits ==
    [][(/\ Dispatching
        /\ state.mode = "Hint"
        /\ Event.pressed
        /\ Event.key \notin {config.exit, config.hint_exit}
        /\ \E i \in 1..Len(config.hint_chars) : config.hint_chars[i] = Event.key
        /\ \E i \in 1..Len(hints) : hints[i].label = Append(state.hint_buffer, Event.key)
        /\ pc' # "killed")
       => (/\ pc' = "dispatch"
           /\ state'.mode = "Inactive"
           /\ ~input'.grabbed
           /\ \A d \in Devices : input'.devices[d] => input.devices[d]
           /\ hints' = <<>>
           /\ state'.hint_buffer = <<>>
           /\ out' = <<>>
           /\ pointer' = pointer)]_vars

\* Inactive inside the event loop with the drag button still held: Exit and
\* CopyAndExit release it, so the mode was left through a matched hint label
C21_Witness ==
    /\ pc = "dispatch"
    /\ state.mode = "Inactive"
    /\ pointer.drag_button_held
    /\ ~input.grabbed
    /\ hints = <<>>
    /\ state.hint_buffer = <<>>

C23_CaseNormalized ==
    (/\ call.op = "process_key"
     /\ call.before.mode = "Normal"
     /\ call.pressed
     /\ Len(call.key) = 1
     /\ to_lowercase(<<call.key>>) = to_lowercase(arg.left)
     /\ ~call.before.movement.left)
    => (ret.action.type = "Move" /\ state.movement.left)

(***************************************************************************)
(* Properties of the mode transitions (specification SpecModes)            *)
(***************************************************************************)
\* C24: after each arm of run() that enters a mode (Inactive to Normal, Inactive to
\* Hint, Normal to Hint) or leaves for Inactive (Exit, CopyAndExit, a matched hint
\* label) and does not make run() return, the three velocities are 0.
C24_ResetOnEveryTransition ==
    (/\ pc = "calls"
     /\ \/ call.op \in {"activate_normal", "activate_hint", "exit", "enter_hint",
                        "copy_and_exit"}
        \/ call.op = "hint_char" /\ state.mode = "Inactive")
    => physics = PhysicsState_new

(***************************************************************************)
(* Properties of move_mouse and Drop (specification SpecPointer)           *)
(***************************************************************************)
\* the places of the records of one kind in what a call wrote
RecordsAt(recs, type, code) ==
    {i \in 1..Len(recs) : recs[i].type = type /\ recs[i].code = code}

\* the axis records of a move_mouse(dx, dy) call: one REL_X carrying dx iff dx # 0,
\* one REL_Y carrying dy iff dy # 0, REL_X first, and nothing else but `syncs` syncs
AxesThenSyncs(recs, dx, dy, syncs) ==
    LET xs == RecordsAt(recs, EV_REL, REL_X)
        ys == RecordsAt(recs, EV_REL, REL_Y)
    IN  /\ Cardinality(xs) = (IF dx # 0 THEN 1 ELSE 0)
        /\ Cardinality(ys) = (IF dy # 0 THEN 1 ELSE 0)
        /\ \A i \in xs : recs[i].value = dx /\ \A j \in ys : i < j
        /\ \A j \in ys : recs[j].value = dy
        /\ Cardinality(RecordsAt(recs, EV_SYN, SYN_REPORT)) = syncs
        /\ Len(recs) = Cardinality(xs) + Cardinality(ys) + syncs

\* C25: each move_mouse(dx, dy) call writes at most one REL_X record (iff dx # 0)
\* and at most one REL_Y record (iff dy # 0), in that order, then exactly one
\* SYN_REPORT record, which is the last record of the call.
C25_MoveMouseBatch ==
    call.op = "move_mouse" =>
        /\ AxesThenSyncs(call.out, arg[1], arg[2], 1)
        /\ call.out[Len(call.out)] = SynReport

\* C25 (amended): a move_mouse(dx, dy) call that returns Ok has written exactly
\* that; a call that returns Err has written the records before the write that
\* failed, the axis records it reached in the same order, and no SYN_REPORT.
C25_MoveMouseBatchIfOk ==
    call.op = "move_mouse" =>
        IF call.ok
        THEN /\ AxesThenSyncs(call.out, arg[1], arg[2], 1)
             /\ call.out[Len(call.out)] = SynReport
        ELSE \E dx \in {0, arg[1]}, dy \in {0, arg[2]} :
                /\ AxesThenSyncs(call.out, dx, dy, 0)
                /\ (dy # 0 => dx = arg[1])

\* move_mouse(3, 3) has returned Ok with three records
C25_Witness ==
    /\ call.op = "move_mouse"
    /\ arg = <<3, 3>>
    /\ call.ok
    /\ Len(call.out) = 3

C27_NormalPress ==
    LET b == call.before
        k == call.key
        a == ret.action
        is(type, x, y) == a.type = type /\ a.a = x /\ a.b = y
        n(flag) == IF flag THEN 1 ELSE 0
        moved == is("Move", n(state.movement.right) - n(state.movement.left),
                            n(state.movement.down) - n(state.movement.up))
        once(flag, after, action) ==
            IF flag THEN is("None", 0, 0) /\ state = b ELSE action /\ state = after
    IN  (call.op = "process_key" /\ b.mode = "Normal" /\ call.pressed) =>
        CASE k = config.exit -> is("Exit", 0, 0) /\ state = b
          [] k = config.hint -> is("EnterHint", 0, 0) /\ state = b
          [] k = config.drag ->
                is("ToggleDrag", 0, 0) /\ state = [b EXCEPT !.drag_active = ~b.drag_active]
          [] k = config.copy_and_exit -> is("CopyAndExit", 0, 0) /\ state = b
          [] k = config.accelerator ->
                once(b.movement.accelerating, [b EXCEPT !.movement.accelerating = TRUE],
                     is("Accelerate", 0, 0))
          [] k = config.decelerator ->
                once(b.movement.decelerating, [b EXCEPT !.movement.decelerating = TRUE],
                     is("Decelerate", 0, 0))
          [] k = config.left ->
                once(b.movement.left, [b EXCEPT !.movement.left = TRUE], moved)
          [] k = config.right ->
                once(b.movement.right, [b EXCEPT !.movement.right = TRUE], moved)
          [] k = config.up ->
                once(b.movement.up, [b EXCEPT !.movement.up = TRUE], moved)
          [] k = config.down ->
                once(b.movement.down, [b EXCEPT !.movement.down = TRUE], moved)
          [] k = config.scroll_up ->
                once(b.scroll.up, [b EXCEPT !.scroll.up = TRUE], is("Scroll", -1, 0))
          [] k = config.scroll_down ->
                once(b.scroll.down, [b EXCEPT !.scroll.down = TRUE], is("Scroll", 1, 0))
          [] k = config.buttons.left -> is("Click", 0, 0) /\ state = b
          [] k = config.buttons.middle -> is("Click", 1, 0) /\ state = b
          [] k = config.buttons.right -> is("Click", 2, 0) /\ state = b
          [] OTHER -> is("None", 0, 0) /\ state = b

\* the right key is pressed while left and up are held: Move{0, -1}
C27_Witness ==
    /\ call.op = "process_key" /\ call.before.mode = "Normal" /\ call.pressed
    /\ call.key = config.right
    /\ call.before.movement.left /\ call.before.movement.up
    /\ ~call.before.movement.right
    /\ ret.action = Action("Move", 0, -1)
    /\ state.movement.right

C29_HintKeys ==
    LET b == call.before
        k == call.key
        a == ret.action
        hint_char == Len(k) = 1 /\ \E i \in 1..Len(config.hint_chars) : config.hint_chars[i] = k
    IN  (call.op = "process_key" /\ b.mode = "Hint") =>
        IF ~call.pressed THEN a.type = "None" /\ state = b
        ELSE IF k \in {config.hint_exit, config.exit} THEN a.type = "Exit"
        ELSE IF hint_char
        THEN /\ a.type = "HintChar" /\ a.a = k
             /\ state = [b EXCEPT !.hint_buffer = b.hint_buffer \o <<k>>]
        ELSE IF k = "backspace"
        THEN /\ a.type = "None"
             /\ state = [b EXCEPT !.hint_buffer =
                            IF Len(@) = 0 THEN <<>> ELSE [i \in 1..(Len(@) - 1) |-> @[i]]]
        ELSE a.type = "None" /\ state = b

\* backspace in Hint mode has taken the second of two typed characters away
C29_Witness ==
    /\ call.op = "process_key" /\ call.before.mode = "Hint" /\ call.pressed
    /\ call.key = "backspace"
    /\ call.before.hint_buffer = <<"m", "x">>
    /\ state.hint_buffer = <<"m">>
    /\ ret.action.type = "None"

(***************************************************************************)
(* Properties of ModifierState (specification SpecModifiers)               *)
(***************************************************************************)
\* C30: after any sequence of update calls each logical modifier that
\* to_modifiers() reports (alt, ctrl, shift, super) is true iff the last update of
\* its left key or the last update of its right key was a press, so releasing one
\* of the two while the other is held leaves it true; an update for a key that is
\* not a modifier changes nothing.
C30_LogicalModifiers ==
    /\ ret.mods.alt <=> (arg["KEY_LEFTALT"] \/ arg["KEY_RIGHTALT"])
    /\ ret.mods.ctrl <=> (arg["KEY_LEFTCTRL"] \/ arg["KEY_RIGHTCTRL"])
    /\ ret.mods.shift <=> (arg["KEY_LEFTSHIFT"] \/ arg["KEY_RIGHTSHIFT"])
    /\ ret.mods.super_key <=> (arg["KEY_LEFTMETA"] \/ arg["KEY_RIGHTMETA"])
    /\ ret.mods = ModifierState_to_modifiers(input.modifier_state)
    /\ (call.op = "update" /\ call.code = "KEY_C") => input.modifier_state = call.before

\* the left Alt key is released while the right one is held: alt is still reported
C30_Witness ==
    /\ call.op = "update" /\ call.code = "KEY_LEFTALT" /\ ~call.pressed
    /\ call.before.left_alt /\ call.before.right_alt
    /\ ~input.modifier_state.left_alt
    /\ ret.mods.alt
    /\ ~ret.mods.ctrl

(***************************************************************************)
(* C31: in every reachable state of the input manager, also after grab()   *)
(* failed part-way through the device list, a device that holds an         *)
(* exclusive grab implies that the grabbed flag is set, so that a later    *)
(* ungrab() or Drop releases it.                                           *)
(***************************************************************************)
C31_GrabbedDeviceImpliesFlag ==
    (\E d \in Devices : input.devices[d]) => input.grabbed

(***************************************************************************)
(* C32: at every loop-iteration boundary of run(), the state machine's     *)
(* drag_active equals the virtual pointer's drag_button_held.              *)
(***************************************************************************)
C32_DragFlagsAgree ==
    pc = "poll" => state.drag_active = pointer.drag_button_held

(***************************************************************************)
(* C33: whenever the mode is Inactive at a loop-iteration boundary, the    *)
(* virtual pointer holds no button: drag_button_held is false and the last *)
(* left-button record written, if any, is a release.                       *)
(***************************************************************************)
C33_InactiveHoldsNoButton ==
    (pc = "poll" /\ state.mode = "Inactive") =>
        /\ ~pointer.drag_button_held
        /\ pointer.left # "down"

(***************************************************************************)
(* C34: after any sequence of polled key presses and releases and of grabs *)
(* and ungrabs in which no hardware event is lost, each tracked modifier   *)
(* flag equals whether that modifier key is physically held; consequently  *)
(* the activation key activates Normal mode exactly when the binding's     *)
(* modifiers (Alt and Meta) are the ones physically held.                  *)
(***************************************************************************)
C34_FlagsFollowKeyboard ==
    LET m == input.modifier_state
        physical == [alt   |-> "KEY_LEFTALT" \in arg,  ctrl      |-> "KEY_RIGHTCTRL" \in arg,
                     shift |-> "KEY_LEFTSHIFT" \in arg, super_key |-> "KEY_RIGHTMETA" \in arg]
    IN  /\ m.left_alt = ("KEY_LEFTALT" \in arg)
        /\ m.right_ctrl = ("KEY_RIGHTCTRL" \in arg)
        /\ m.left_shift = ("KEY_LEFTSHIFT" \in arg)
        /\ m.right_meta = ("KEY_RIGHTMETA" \in arg)
        /\ InputManager_check_activation(input, "c", config.activation_key)
               = (physical = config.activation_key.modifiers)

(***************************************************************************)
(* C35: the only mode changes of the loop are Inactive to Normal, Inactive *)
(* to Hint, Normal to Inactive, Normal to Hint and Hint to Inactive. There *)
(* is no change from Hint to Normal: process_key never returns             *)
(* EnterNormal, and in Inactive it returns None and changes nothing.       *)
(***************************************************************************)
C35_ModeChanges ==
    /\ [][state'.mode # state.mode =>
              <<state.mode, state'.mode>> \in
                  {<<"Inactive", "Normal">>, <<"Inactive", "Hint">>, <<"Normal", "Inactive">>,
                   <<"Normal", "Hint">>, <<"Hint", "Inactive">>}]_vars
    /\ [](Dispatching =>
              /\ Processed.action.type # "EnterNormal"
              /\ state.mode = "Inactive" => Processed = Ret(state, Action_None))

\* Hint mode entered from Normal mode (the drag button is pressed in Normal mode only),
\* with a key of the hint alphabet about to be dispatched
C35_Witness ==
    /\ Dispatching
    /\ state.mode = "Hint"
    /\ pointer.drag_button_held
    /\ Event.pressed /\ Event.key = "x"

(***************************************************************************)
(* C36: in each tick the physics step runs exactly once if the mode is     *)
(* Normal after the tick's events were dispatched, and not at all          *)
(* otherwise. A relative-motion record is emitted if and only if the       *)
(* step's (dx, dy) is not (0, 0) and a wheel record if and only if its     *)
(* scroll output is not 0; no REL_X, REL_Y or REL_WHEEL record is emitted  *)
(* in a tick that ends in Inactive or Hint.                                *)
(***************************************************************************)
HasRel(recs, codes) ==
    \E i \in 1..Len(recs) : recs[i].type = EV_REL /\ recs[i].code \in codes

\* the step of elapsed time dt explains the tick; `total` says whether a record is
\* owed for every nonzero output, or only permitted
TickStep(dt, total) ==
    LET u == PhysicsState_update(call.before, state, config, dt)
        moved == u.dx # 0 \/ u.dy # 0
    IN  /\ physics = u.physics
        /\ HasRel(out, {REL_X, REL_Y}) => moved
        /\ HasRel(out, {REL_WHEEL}) => u.scroll # 0
        /\ total => /\ moved => HasRel(out, {REL_X, REL_Y})
                    /\ u.scroll # 0 => HasRel(out, {REL_WHEEL})

C36_TickPhysics ==
    call.op = "tick" =>
        IF state.mode = "Normal"
        THEN \E dt \in TickDts : TickStep(dt, TRUE)
        ELSE physics = call.before /\ ~HasRel(out, {REL_X, REL_Y, REL_WHEEL})

\* C36 as amended: the records are owed in a tick whose writes all succeed; a write
\* that fails ends run() with the records written before it
C36_TickPhysicsIfOk ==
    call.op = "tick" =>
        IF state.mode = "Normal"
        THEN \E dt \in TickDts : TickStep(dt, pc = "calls")
        ELSE physics = call.before /\ ~HasRel(out, {REL_X, REL_Y, REL_WHEEL})

\* a tick in Normal mode that moved the pointer and turned the wheel
C36_Witness ==
    /\ call.op = "tick"
    /\ pc = "calls"
    /\ state.mode = "Normal"
    /\ physics # call.before
    /\ HasRel(out, {REL_X})
    /\ HasRel(out, {REL_WHEEL})

\* a tick in Hint mode with the velocity of Normal mode left in the PhysicsState
C36_WitnessHint ==
    /\ call.op = "tick"
    /\ state.mode = "Hint"
    /\ physics.velocity_x # 0

(***************************************************************************)
(* C37: after every physics update each velocity component lies in         *)
(* [-max_speed, max_speed], and a single update never moves a component    *)
(* past its target: a component below its target is at most the target     *)
(* afterwards, one above it is at least the target, and one equal to it is *)
(* unchanged.                                                              *)
(***************************************************************************)
C37_ClampedNoOvershoot ==
    LET dir == MovementState_direction(state.movement)
        target_speed == IF state.movement.decelerating THEN config.decelerator_speed
                        ELSE IF state.movement.accelerating THEN config.max_speed
                        ELSE config.speed
        moving == dir # <<0, 0>>
        target_vx == IF moving THEN dir[1] * target_speed * 1000 ELSE 0
        target_vy == IF moving THEN dir[2] * target_speed * 1000 ELSE 0
        max == config.max_speed * 1000
        kept(before, after, target) ==
            /\ before < target => (before <= after /\ after <= target)
            /\ before > target => (before >= after /\ after >= target)
            /\ before = target => after = before
    IN  call.op = "update" =>
            /\ -max <= physics.velocity_x /\ physics.velocity_x <= max
            /\ -max <= physics.velocity_y /\ physics.velocity_y <= max
            /\ kept(call.before.velocity_x, physics.velocity_x, target_vx)
            /\ kept(call.before.velocity_y, physics.velocity_y, target_vy)

\* a valid tick whose full acceleration step would have passed the target: the
\* horizontal component, coming from above, stops at speed
C37_Witness ==
    /\ ValidTick
    /\ ~state.movement.accelerating /\ ~state.movement.decelerating
    /\ MovementState_direction(state.movement) = <<1, 0>>
    /\ call.before.velocity_x > config.speed * 1000
    /\ call.before.velocity_x - config.acceleration * call.dt < config.speed * 1000
    /\ physics.velocity_x = config.speed * 1000

(***************************************************************************)
(* C38: click(button) with button in {0, 1, 2} emits exactly press(code),  *)
(* SYN_REPORT, release(code), SYN_REPORT, with code BTN_LEFT, BTN_MIDDLE   *)
(* or BTN_RIGHT for 0, 1 or 2, and does not change drag_button_held; every *)
(* record-emitting operation (click, button, toggle_drag, scroll, hscroll) *)
(* ends with a SYN_REPORT record.                                          *)
(***************************************************************************)
ClickRecords(button) ==
    LET code == CASE button = 0 -> BTN_LEFT [] button = 1 -> BTN_MIDDLE
                  [] button = 2 -> BTN_RIGHT
    IN  <<InputEvent(EV_KEY, code, 1), SynReport, InputEvent(EV_KEY, code, 0), SynReport>>

C38_ClickSequence ==
    /\ (call.op = "click" /\ arg[1] \in {0, 1, 2}) =>
           /\ out = ClickRecords(arg[1])
           /\ pointer.drag_button_held = call.held_before
    /\ (call.op \in {"click", "button", "toggle_drag", "scroll", "hscroll"} /\ out # <<>>) =>
           out[Len(out)] = SynReport

\* C38 as amended: the sequence is that of a call that returns Ok; a call in which a
\* write fails has emitted the records before the failed write and no more
C38_ClickSequenceIfOk ==
    /\ (call.op = "click" /\ arg[1] \in {0, 1, 2}) =>
           /\ call.ok => out = ClickRecords(arg[1])
           /\ ~call.ok => (IsPrefix(out, ClickRecords(arg[1])) /\ Len(out) < 4)
           /\ pointer.drag_button_held = call.held_before
    /\ (/\ call.op \in {"click", "button", "toggle_drag", "scroll", "hscroll"}
        /\ call.ok) =>
           /\ out # <<>>
           /\ out[Len(out)] = SynReport

\* a click of the right button that returned Ok while the drag button was held
C38_Witness ==
    /\ call.op = "click"
    /\ arg = <<2>>
    /\ call.ok
    /\ call.held_before
    /\ Len(out) = 4

(***************************************************************************)
(* C39: click(id) and button(id, _) with id outside {0, 1, 2} return an    *)
(* error without emitting any record and without changing                  *)
(* drag_button_held; process_key never produces Click(id) with id > 2.     *)
(***************************************************************************)
C39_InvalidButton ==
    /\ (call.op \in {"click", "button"} /\ arg[1] \notin {0, 1, 2}) =>
           /\ ~call.ok
           /\ out = <<>>
           /\ pointer.drag_button_held = call.held_before
    /\ \A mode \in {"Inactive", "Normal", "Hint"}, key \in StateKeys, pressed \in BOOLEAN,
          held \in BOOLEAN :
           LET st == [AppState_new EXCEPT !.mode = mode, !.drag_active = held,
                                          !.movement.left = held, !.scroll.up = held]
               action == AppState_process_key(st, key, pressed, config).action
           IN  action.type = "Click" => action.a \in {0, 1, 2}

\* click(3) was called with the drag button held, right after toggle_drag
C39_Witness ==
    /\ call.op = "click"
    /\ arg = <<3>>
    /\ call.held_before
    /\ ~call.ok
    /\ prev_call.op = "toggle_drag"

(***************************************************************************)
(* C40: with an alphabet of distinct characters, at every loop-iteration   *)
(* boundary in Hint mode hint_buffer holds at most one character: a second *)
(* accepted character either completes a label (the mode becomes Inactive  *)
(* and the buffer is cleared) or, if no label has the buffer as prefix,    *)
(* the buffer is cleared. The bound holds after every dispatched event,    *)
(* and so at every loop-iteration boundary.                                *)
(***************************************************************************)
C40_HintBufferAtMostOne ==
    /\ state.mode = "Hint" => Len(state.hint_buffer) <= 1
    /\ (Dispatching /\ state.mode = "Hint" /\ Processed.action.type = "HintChar"
        /\ Len(state.hint_buffer) = 1) =>
           \/ find_hint_exact(hints, Processed.state.hint_buffer).some
           \/ find_hint_by_prefix(hints, Processed.state.hint_buffer) = <<>>

\* one character of a label is in the buffer and a second character of the alphabet
\* is about to be dispatched
C40_Witness ==
    /\ Dispatching
    /\ state.mode = "Hint"
    /\ state.hint_buffer = <<"m">>
    /\ Event.pressed /\ Event.key = "x"

====
